---- MODULE Spec2Model ----
(***************************************************************************)
(* Cluster-robust inference engine of walehn/ureter_stone.                 *)
(*                                                                         *)
(* Part 1: the patient-level bootstrap (src/src/bootstrap.py) and the      *)
(* patient metrics calculator (src/src/patient_metrics.py).                *)
(*                                                                         *)
(* Numbers.  Python floats that the code obtains by dividing counts are    *)
(* modelled as exact rationals <<num, den>> in lowest terms (den > 0).     *)
(* <<0, 0>> stands for "no value": a division by zero (ZeroDivisionError)  *)
(* or numpy's nan of an empty array.                                       *)
(*                                                                         *)
(* Random numbers.  numpy's process-wide generator (np.random.seed,        *)
(* np.random.choice) is one deterministic stream: a state, a function      *)
(* from a seed to a state, and a step function.  The model keeps exactly   *)
(* that shape with a small full-period congruential generator.             *)
(***************************************************************************)
EXTENDS Integers, Sequences, FiniteSets, TLC

VARIABLES
    fn,             \* one call of a pure function: its name, arguments, result
    rng,            \* state of the process-wide generator np.random
    analyzers,      \* the BootstrapAnalyzer instances, by identity
    data_assisted,  \* the record list passed as data_assisted
    data_unaided,   \* the record list passed as data_unaided
    pm,             \* one PatientMetricsCalculator and its last call
    gee,            \* one GEEAnalyzer and its fit call
    dca,            \* one DecisionCurveAnalyzer and its last call
    pipe            \* one run of main.py: its arguments, its pipeline, its steps

vars == <<fn, rng, analyzers, data_assisted, data_unaided, pm, gee, dca, pipe>>

(***************************************************************************)
(* Bounds of the model                                                     *)
(***************************************************************************)
MaxFnRecords == 3      \* longest record list given to a pure function
MaxCount == 2          \* largest count in a confusion matrix given directly
MaxRows == 2           \* most rows of a reader file given to the bootstrap
MaxIter == 3           \* largest n_iterations
MaxRuns == 2           \* most calls made on one analyzer (SpecTwice)
MaxSharedIter == 2     \* largest n_iterations of two analyzers side by side
MaxPmRows == 2         \* most rows of a data frame given to calculate_by_mode
MaxPmCalls == 3        \* most calls made on one PatientMetricsCalculator
MaxThresholds == 3     \* largest n_thresholds of a DecisionCurveAnalyzer
MaxDcaCount == 1       \* largest count in a matrix given to the decision curves
MaxGeeRecords == 5     \* longest record list given to GEEAnalyzer.fit
MaxCorrRows == 4       \* most rows given to compute_working_correlation
MaxBeta == 2           \* largest |beta| given to the Wald stage of fit
MaxSe == 2             \* largest robust_se given to the Wald stage of fit

PatientIds == {"P1", "P2"}
Labels == {0, 1}

\* bootstrap.py 14, 35: a record of the input list
Records == [patient_id : PatientIds, ground_truth : Labels, prediction : Labels]

SeqsUpTo(S, n) == UNION {[1..k -> S] : k \in 0..n}

(***************************************************************************)
(* Rational arithmetic (the floats of the code)                            *)
(***************************************************************************)
Abs(x) == IF x < 0 THEN -x ELSE x

RECURSIVE GCD(_, _)
GCD(a, b) == IF b = 0 THEN a ELSE GCD(b, a % b)

Rat(n, d) == LET g == GCD(Abs(n), d) IN <<n \div g, d \div g>>

Zero == <<0, 1>>
NoValue == <<0, 0>>

IsValue(x) == x[2] > 0

\* Python's  a / b  on two ints: ZeroDivisionError when b = 0
PyDiv(a, b) == IF b = 0 THEN NoValue ELSE Rat(a, b)

RAdd(x, y) == Rat(x[1] * y[2] + y[1] * x[2], x[2] * y[2])
RSub(x, y) == Rat(x[1] * y[2] - y[1] * x[2], x[2] * y[2])
RMul(x, y) == Rat(x[1] * y[1], x[2] * y[2])
RLt(x, y) == x[1] * y[2] < y[1] * x[2]
RLe(x, y) == x[1] * y[2] <= y[1] * x[2]
RFloor(x) == x[1] \div x[2]

(***************************************************************************)
(* The process-wide random stream                                          *)
(***************************************************************************)
RngStates == 0..15

\* bootstrap.py 60: np.random.seed(random_seed)
RngSeed(seed) == seed % 16

\* one step of the stream
RngNext(g) == (5 * g + 3) % 16

\* the index in 0..n-1 that a state yields
RngIndex(g, n) == (g * n) \div 16

\* Faulty variant: an empty population is refused whatever the size
RECURSIVE choice_NonEmptyOnly(_, _, _)
choice_NonEmptyOnly(a, size, g) ==
    IF Len(a) = 0 THEN [out |-> <<>>, rng |-> g, raised |-> TRUE]
    ELSE IF size = 0 THEN [out |-> <<>>, rng |-> g, raised |-> FALSE]
    ELSE IF Len(a) = 1
         THEN [out |-> [i \in 1..size |-> a[1]], rng |-> g, raised |-> FALSE]
    ELSE LET g1 == (5 * g + 3) % 16
             rest == choice_NonEmptyOnly(a, size - 1, g1)
         IN  [out |-> <<a[((g1 * Len(a)) \div 16) + 1]>> \o rest.out,
              rng |-> rest.rng, raised |-> FALSE]

\* bootstrap.py 84: np.random.choice(a, size=size, replace=True).
\* Nothing is drawn from the stream for size 0 nor for a one-element a.
\* An empty a with size > 0 raises ValueError (raised = TRUE).
RECURSIVE choice(_, _, _)
choice(a, size, g) ==
    IF size = 0 THEN [out |-> <<>>, rng |-> g, raised |-> FALSE]
    ELSE IF Len(a) = 0 THEN [out |-> <<>>, rng |-> g, raised |-> TRUE]
    ELSE IF Len(a) = 1
         THEN [out |-> [i \in 1..size |-> a[1]], rng |-> g, raised |-> FALSE]
    ELSE LET g1 == RngNext(g)
             rest == choice(a, size - 1, g1)
         IN  [out |-> <<a[RngIndex(g1, Len(a)) + 1]>> \o rest.out,
              rng |-> rest.rng, raised |-> FALSE]

(***************************************************************************)
(* BootstrapAnalyzer: the pure steps of one iteration                      *)
(***************************************************************************)
EmptyDict == [keys |-> <<>>, items |-> [k \in {} |-> <<>>]]

HasKey(d, k) == \E i \in 1..Len(d.keys) : d.keys[i] = k

\* bootstrap.py 75-77: the defaultdict(list) of the records by patient_id,
\* keys in order of first appearance
RECURSIVE patient_records(_, _, _)
patient_records(data, i, acc) ==
    IF i > Len(data) THEN acc
    ELSE LET record == data[i]
             pid == record.patient_id
         IN  patient_records(data, i + 1,
                 IF HasKey(acc, pid)
                 THEN [acc EXCEPT !.items[pid] = Append(@, record)]
                 ELSE [keys |-> Append(acc.keys, pid),
                       items |-> (pid :> <<record>>) @@ acc.items])

\* bootstrap.py 87-89: resampled_data.extend(patient_records[patient_id])
RECURSIVE extend_all(_, _, _)
extend_all(ids, groups, i) ==
    IF i > Len(ids) THEN <<>>
    ELSE groups.items[ids[i]] \o extend_all(ids, groups, i + 1)

\* Faulty variant: record-level resampling: len(data) single records are drawn
resample_patients_ByRecord(data, g) ==
    LET drawn == choice(data, Len(data), g)
    IN  [data |-> drawn.out,
         ids |-> [i \in 1..Len(drawn.out) |-> drawn.out[i].patient_id],
         rng |-> drawn.rng,
         raised |-> drawn.raised]

\* bootstrap.py 64-91
resample_patients(data, g) ==
    LET groups == patient_records(data, 1, EmptyDict)
        unique_patients == groups.keys
        n_patients == Len(unique_patients)
        drawn == choice(unique_patients, n_patients, g)
    IN  [data |-> extend_all(drawn.out, groups, 1),
         ids |-> drawn.out,
         rng |-> drawn.rng,
         raised |-> drawn.raised]

\* Faulty variant: the later record overwrites the label instead of max
Max_LastWins(a, b) == b

\* bootstrap.py 118-125: Python's max of two labels
Max(a, b) == IF a >= b THEN a ELSE b

\* bootstrap.py 105-125: the dict patient_agg after the loop
RECURSIVE patient_agg(_, _, _)
patient_agg(data, i, acc) ==
    IF i > Len(data) THEN acc
    ELSE LET record == data[i]
             pid == record.patient_id
         IN  patient_agg(data, i + 1,
                 IF ~HasKey(acc, pid)
                 THEN [keys |-> Append(acc.keys, pid),
                       items |-> (pid :> [patient_id |-> pid,
                                          ground_truth |-> record.ground_truth,
                                          prediction |-> record.prediction])
                                 @@ acc.items]
                 ELSE [acc EXCEPT
                         !.items[pid].ground_truth = Max(@, record.ground_truth),
                         !.items[pid].prediction = Max(@, record.prediction)])

\* Faulty variant: no merging, every record stays a unit of its own
aggregate_to_patient_level_PerRecord(data) == data

\* bootstrap.py 93-127
aggregate_to_patient_level(data) ==
    LET agg == patient_agg(data, 1, EmptyDict)
    IN  [i \in 1..Len(agg.keys) |-> agg.items[agg.keys[i]]]

\* bootstrap.py 140-143: sum(1 for r in data if ...)
CountRecords(data, gt, pred) ==
    Cardinality({i \in 1..Len(data) :
                    data[i].ground_truth = gt /\ data[i].prediction = pred})

\* Faulty variant: the rate without its zero-denominator guard
GuardedRate_NoGuard(x, y) == PyDiv(x, y)

\* bootstrap.py 146-149 / patient_metrics.py 110-119:  x / y if y > 0 else 0.0
GuardedRate(x, y) == IF y > 0 THEN PyDiv(x, y) ELSE Zero

\* Faulty variant: the positive predictive value written as TP per FP
Rates_PpvPerFp(tp, fp, fn_, tn) ==
    [sensitivity |-> GuardedRate(tp, tp + fn_),
     specificity |-> GuardedRate(tn, tn + fp),
     ppv |-> GuardedRate(tp, fp),
     npv |-> GuardedRate(tn, tn + fn_)]

\* the four rates of a confusion matrix, as both calculate_metrics write them
Rates(tp, fp, fn_, tn) ==
    [sensitivity |-> GuardedRate(tp, tp + fn_),
     specificity |-> GuardedRate(tn, tn + fp),
     ppv |-> GuardedRate(tp, tp + fp),
     npv |-> GuardedRate(tn, tn + fn_)]

\* bootstrap.py 129-156
calculate_metrics(data) ==
    Rates(CountRecords(data, 1, 1), CountRecords(data, 0, 1),
          CountRecords(data, 1, 0), CountRecords(data, 0, 0))

\* patient_metrics.py 94-126
pm_calculate_metrics(cm) == Rates(cm.TP, cm.FP, cm.FN, cm.TN)

MetricNames == {"sensitivity", "specificity", "ppv", "npv"}

MetricsRaised(m) == \E k \in MetricNames : ~IsValue(m[k])

\* bootstrap.py 158-177
bootstrap_single_iteration(data, g) ==
    LET resampled == resample_patients(data, g)
        metrics == calculate_metrics(aggregate_to_patient_level(resampled.data))
    IN  [metrics |-> metrics, rng |-> resampled.rng,
         raised |-> resampled.raised \/ MetricsRaised(metrics)]

(***************************************************************************)
(* BootstrapAnalyzer: statistics of the samples                            *)
(***************************************************************************)
RECURSIVE RSum(_)
RSum(s) == IF s = <<>> THEN Zero ELSE RAdd(Head(s), RSum(Tail(s)))

\* bootstrap.py 245, 322: np.mean (nan for an empty array)
np_mean(s) ==
    IF Len(s) = 0 THEN NoValue
    ELSE LET t == RSum(s) IN Rat(t[1], t[2] * Len(s))

RECURSIVE Insert(_, _)
Insert(x, s) ==
    IF s = <<>> THEN <<x>>
    ELSE IF RLe(x, Head(s)) THEN <<x>> \o s
    ELSE <<Head(s)>> \o Insert(x, Tail(s))

\* Faulty variant: the order statistics are read from the samples as they came
np_sort_Unsorted(s) == s

\* the ascending order np.percentile reads its order statistics from
RECURSIVE np_sort(_)
np_sort(s) == IF s = <<>> THEN <<>> ELSE Insert(Head(s), np_sort(Tail(s)))

\* bootstrap.py 247-248, 326-327: np.percentile(a, q), q a rational in
\* [0, 100], linear interpolation between the two nearest order statistics
np_percentile(a, q) ==
    IF Len(a) = 0 THEN NoValue
    ELSE LET sorted == np_sort(a)
             n == Len(a)
             index == RMul(Rat(q[1], q[2] * 100), <<n - 1, 1>>)
             lo == RFloor(index)
             hi == IF lo + 1 > n - 1 THEN n - 1 ELSE lo + 1
             frac == RSub(index, <<lo, 1>>)
         IN  RAdd(sorted[lo + 1], RMul(frac, RSub(sorted[hi + 1], sorted[lo + 1])))

\* bootstrap.py 230-232, 325-327: confidence_level is held in percent;
\* alpha = 1 - confidence_level, the percentiles are (alpha / 2) * 100 and
\* (1 - alpha / 2) * 100
lower_percentile(confidence_level) == Rat(100 - confidence_level, 2)
upper_percentile(confidence_level) == Rat(100 + confidence_level, 2)

\* bootstrap.py 217-260 (std, which needs a square root, is left out)
calculate_confidence_intervals(self, bootstrap_samples, mode) ==
    [made |-> TRUE,
     mode |-> mode,
     n_iterations |-> self.n_iterations,
     confidence_level |-> self.confidence_level,
     metrics |-> [k \in MetricNames |->
        [mean |-> np_mean(bootstrap_samples[k]),
         ci_lower |-> np_percentile(bootstrap_samples[k],
                                    lower_percentile(self.confidence_level)),
         ci_upper |-> np_percentile(bootstrap_samples[k],
                                    upper_percentile(self.confidence_level)),
         samples |-> bootstrap_samples[k]]]]

\* Faulty variant: the unaided samples are paired in reverse iteration order
delta_samples_Reversed(assisted_samples, unaided_samples) ==
    [i \in 1..Len(assisted_samples) |->
        RSub(assisted_samples[i],
             unaided_samples[Len(unaided_samples) + 1 - i])]

\* bootstrap.py 315-319: assisted_samples - unaided_samples on numpy arrays
\* of one length
delta_samples(assisted_samples, unaided_samples) ==
    [i \in 1..Len(assisted_samples) |->
        RSub(assisted_samples[i], unaided_samples[i])]

CountWhere(s, Test(_)) == Cardinality({i \in 1..Len(s) : Test(s[i])})

\* Faulty variant: a delta sample of exactly zero does not count as crossing
p_value_approx_StrictCrossing(delta, mean_delta) ==
    IF Len(delta) = 0 THEN NoValue
    ELSE IF RLt(Zero, mean_delta)
         THEN Rat(CountWhere(delta, LAMBDA x : RLt(x, Zero)), Len(delta))
         ELSE Rat(CountWhere(delta, LAMBDA x : RLt(Zero, x)), Len(delta))

\* bootstrap.py 330-332 (numpy division: nan, not an error, for no samples)
p_value_approx(delta, mean_delta) ==
    IF Len(delta) = 0 THEN NoValue
    ELSE IF RLt(Zero, mean_delta)
         THEN Rat(CountWhere(delta, LAMBDA x : RLe(x, Zero)), Len(delta))
         ELSE Rat(CountWhere(delta, LAMBDA x : RLe(Zero, x)), Len(delta))

\* Faulty variant: an interval that touches zero counts as excluding it
significant_Inclusive(ci_lower, ci_upper) ==
    RLe(Zero, ci_lower) \/ RLe(ci_upper, Zero)

\* bootstrap.py 340: bool(ci_lower > 0 or ci_upper < 0)
significant(ci_lower, ci_upper) ==
    RLt(Zero, ci_lower) \/ RLt(ci_upper, Zero)

\* bootstrap.py 297-349 (std left out)
calculate_delta(self, results_assisted, results_unaided) ==
    [metrics |-> [k \in MetricNames |->
        LET delta == delta_samples(results_assisted.metrics[k].samples,
                                   results_unaided.metrics[k].samples)
            mean_delta == np_mean(delta)
            ci_lower == np_percentile(delta, lower_percentile(self.confidence_level))
            ci_upper == np_percentile(delta, upper_percentile(self.confidence_level))
        IN  [mean |-> mean_delta,
             ci_lower |-> ci_lower,
             ci_upper |-> ci_upper,
             p_value_approx |-> p_value_approx(delta, mean_delta),
             significant |-> significant(ci_lower, ci_upper),
             samples |-> delta]]]

(***************************************************************************)
(* Idle values of the parts a specification does not exercise              *)
(***************************************************************************)
Analyzers == {1, 2}

NoResults == [made |-> FALSE]

Unborn ==
    [state |-> "unborn", n_iterations |-> 0, confidence_level |-> 0,
     random_seed |-> 0, call |-> "none", mode |-> "none", i |-> 0,
     runs |-> 0, stream_at_start |-> 0, log |-> <<>>,
     bootstrap_samples |-> [k \in MetricNames |-> <<>>],
     results_assisted |-> NoResults, results_unaided |-> NoResults,
     returned |-> NoResults, bootstrap_results |-> NoResults]

NoCall == [op |-> "none", kind |-> "none", data |-> <<>>,
           cm |-> [TP |-> 0, FP |-> 0, FN |-> 0, TN |-> 0],
           out_data |-> <<>>, out_ids |-> <<>>,
           out_metrics |-> [k \in MetricNames |-> Zero], raised |-> FALSE]

PmFresh == [metrics |-> [m \in {} |-> 0], confusion_matrices |-> [m \in {} |-> 0],
            calls |-> 0, last |-> "none", seen |-> {}, n_rows |-> 0,
            raised |-> FALSE,
            delta |-> [k \in MetricNames |-> Zero],
            table_mode |-> "none", table |-> <<>>]

\* gee_analysis.py 45-60: GEEAnalyzer() before fit, beside the record list
\* that fit will be given
GeeFresh ==
    [state |-> "fresh", data |-> <<>>, raised |-> FALSE, results |-> NoResults,
     coefficients |-> <<>>, covariance_matrix |-> <<>>, used_pinv |-> FALSE,
     information |-> <<>>, model_variance |-> <<>>,
     beta |-> <<>>, robust_se |-> <<>>, wald |-> <<>>,
     y |-> <<>>, mu |-> <<>>, cluster_ids |-> <<>>, alpha |-> NoValue]

\* dca.py 29: no DecisionCurveAnalyzer constructed yet
NoMatrix == [TP |-> 0, FP |-> 0, FN |-> 0, TN |-> 0]

DcaUnborn ==
    [state |-> "unborn", threshold_min |-> Zero, threshold_max |-> Zero,
     n_thresholds |-> 0, thresholds |-> <<>>, results |-> NoResults,
     last |-> "none", cm_assisted |-> NoMatrix, cm_unaided |-> NoMatrix,
     threshold |-> Zero, raised |-> FALSE, returned |-> NoResults]

\* main.py 453-454: main() not yet entered
NoArgs == [skip_bootstrap |-> FALSE, skip_visualization |-> FALSE, quick |-> FALSE]

NoProcess ==
    [state |-> "unborn", args |-> NoArgs,
     skip_bootstrap |-> FALSE, skip_visualization |-> FALSE, quick_mode |-> FALSE,
     steps |-> <<>>, returned |-> "none", exit_code |-> -1]

bootIdle == /\ analyzers = [a \in Analyzers |-> Unborn]
            /\ data_assisted = <<>>
            /\ data_unaided = <<>>
fnIdle == fn = NoCall
pmIdle == pm = PmFresh
geeIdle == gee = GeeFresh
dcaIdle == dca = DcaUnborn
pipeIdle == pipe = NoProcess

(***************************************************************************)
(* SpecFn: the pure functions, each applied once to an enumerated input    *)
(***************************************************************************)
ConfusionMatrices == [TP : 0..MaxCount, FP : 0..MaxCount,
                      FN : 0..MaxCount, TN : 0..MaxCount]

FnInit ==
    /\ rng \in RngStates
    /\ \/ \E d \in SeqsUpTo(Records, MaxFnRecords) :
              fn = [NoCall EXCEPT !.kind = "records", !.data = d]
       \/ \E c \in ConfusionMatrices :
              fn = [NoCall EXCEPT !.kind = "cm", !.cm = c]
    /\ bootIdle
    /\ pmIdle
    /\ geeIdle
    /\ dcaIdle
    /\ pipeIdle

FnResample ==
    /\ fn.op = "none" /\ fn.kind = "records"
    /\ LET r == resample_patients(fn.data, rng)
       IN  /\ fn' = [fn EXCEPT !.op = "resample_patients", !.out_data = r.data,
                                !.out_ids = r.ids, !.raised = r.raised]
           /\ rng' = r.rng
    /\ UNCHANGED <<analyzers, data_assisted, data_unaided, pm, gee, dca, pipe>>

FnAggregate ==
    /\ fn.op = "none" /\ fn.kind = "records"
    /\ fn' = [fn EXCEPT !.op = "aggregate_to_patient_level",
                        !.out_data = aggregate_to_patient_level(fn.data)]
    /\ UNCHANGED <<rng, analyzers, data_assisted, data_unaided, pm, gee, dca, pipe>>

FnMetrics ==
    /\ fn.op = "none" /\ fn.kind = "records"
    /\ LET m == calculate_metrics(fn.data)
       IN  fn' = [fn EXCEPT !.op = "calculate_metrics", !.out_metrics = m,
                            !.raised = MetricsRaised(m)]
    /\ UNCHANGED <<rng, analyzers, data_assisted, data_unaided, pm, gee, dca, pipe>>

FnPmMetrics ==
    /\ fn.op = "none" /\ fn.kind = "cm"
    /\ LET m == pm_calculate_metrics(fn.cm)
       IN  fn' = [fn EXCEPT !.op = "pm_calculate_metrics", !.out_metrics = m,
                            !.raised = MetricsRaised(m)]
    /\ UNCHANGED <<rng, analyzers, data_assisted, data_unaided, pm, gee, dca, pipe>>

\* bootstrap.py 158-177: one iteration, with its locals: the drawn patient
\* ids, patient_level_data, and the four counts that calculate_metrics
\* (bootstrap.py 140-143) takes from it
FnSingleIteration ==
    /\ fn.op = "none" /\ fn.kind = "records"
    /\ LET resampled == resample_patients(fn.data, rng)
           patient_level_data == aggregate_to_patient_level(resampled.data)
           it == bootstrap_single_iteration(fn.data, rng)
       IN  /\ fn' = [fn EXCEPT !.op = "bootstrap_single_iteration",
                                !.out_ids = resampled.ids,
                                !.out_data = patient_level_data,
                                !.cm = [TP |-> CountRecords(patient_level_data, 1, 1),
                                        FP |-> CountRecords(patient_level_data, 0, 1),
                                        FN |-> CountRecords(patient_level_data, 1, 0),
                                        TN |-> CountRecords(patient_level_data, 0, 0)],
                                !.out_metrics = it.metrics,
                                !.raised = it.raised]
           /\ rng' = it.rng
    /\ UNCHANGED <<analyzers, data_assisted, data_unaided, pm, gee, dca, pipe>>

FnNext ==
    FnResample \/ FnAggregate \/ FnMetrics \/ FnPmMetrics \/ FnSingleIteration

SpecFn == FnInit /\ [][FnNext]_vars

(***************************************************************************)
(* BootstrapAnalyzer instances at work.  A run_bootstrap call is followed  *)
(* iteration by iteration, so that the calls of two analyzers can          *)
(* interleave; the generator they draw from is the one variable rng.       *)
(***************************************************************************)
Seeds == {42, 7}
ConfidenceLevels == {95, 90}
Modes == {"assisted", "unaided"}

NoSamples == [k \in MetricNames |-> <<>>]

DataOf(mode) == IF mode = "assisted" THEN data_assisted ELSE data_unaided

\* bootstrap.py 41-62: BootstrapAnalyzer(n_iterations, confidence_level, random_seed)
Construct(a, n, c, seed) ==
    /\ analyzers[a].state = "unborn"
    /\ analyzers' = [analyzers EXCEPT ![a] =
          [Unborn EXCEPT !.state = "idle", !.n_iterations = n,
                         !.confidence_level = c, !.random_seed = seed]]
    /\ rng' = RngSeed(seed)
    /\ UNCHANGED <<fn, data_assisted, data_unaided, pm, gee, dca, pipe>>

\* bootstrap.py 262-280: run_comparison enters its first run_bootstrap
StartComparison(a) ==
    /\ analyzers[a].state = "idle"
    /\ analyzers' = [analyzers EXCEPT ![a] =
          [@ EXCEPT !.state = "running", !.call = "run_comparison",
                    !.mode = "assisted", !.i = 0, !.runs = @ + 1,
                    !.stream_at_start = rng,
                    !.bootstrap_samples = NoSamples,
                    !.results_assisted = NoResults,
                    !.results_unaided = NoResults,
                    !.returned = NoResults]]
    /\ UNCHANGED <<fn, rng, data_assisted, data_unaided, pm, gee, dca, pipe>>

\* Faulty variant: run_bootstrap seeds the generator again when it starts
StartBootstrap_Reseeds(a, mode) ==
    /\ analyzers[a].state = "idle"
    /\ rng' = RngSeed(analyzers[a].random_seed)
    /\ analyzers' = [analyzers EXCEPT ![a] =
          [@ EXCEPT !.state = "running", !.call = "run_bootstrap",
                    !.mode = mode, !.i = 0, !.runs = @ + 1,
                    !.stream_at_start = RngSeed(analyzers[a].random_seed),
                    !.bootstrap_samples = NoSamples,
                    !.results_assisted = NoResults,
                    !.results_unaided = NoResults,
                    !.returned = NoResults]]
    /\ UNCHANGED <<fn, data_assisted, data_unaided, pm, gee, dca, pipe>>

\* bootstrap.py 179-198: run_bootstrap called on its own
StartBootstrap(a, mode) ==
    /\ analyzers[a].state = "idle"
    /\ analyzers' = [analyzers EXCEPT ![a] =
          [@ EXCEPT !.state = "running", !.call = "run_bootstrap",
                    !.mode = mode, !.i = 0, !.runs = @ + 1,
                    !.stream_at_start = rng,
                    !.bootstrap_samples = NoSamples,
                    !.results_assisted = NoResults,
                    !.results_unaided = NoResults,
                    !.returned = NoResults]]
    /\ UNCHANGED <<fn, rng, data_assisted, data_unaided, pm, gee, dca, pipe>>

\* bootstrap.py 201-209: one pass of the loop of run_bootstrap
Iterate(a) ==
    LET self == analyzers[a]
        it == bootstrap_single_iteration(DataOf(self.mode), rng)
    IN  /\ self.state = "running"
        /\ self.i < self.n_iterations
        /\ rng' = it.rng
        /\ analyzers' = [analyzers EXCEPT ![a] =
              IF it.raised
              THEN [self EXCEPT !.state = "raised"]
              ELSE [self EXCEPT !.i = @ + 1,
                                !.bootstrap_samples =
                                    [k \in MetricNames |-> Append(@[k], it.metrics[k])]]]
        /\ UNCHANGED <<fn, data_assisted, data_unaided, pm, gee, dca, pipe>>

\* what the caller holds of a finished call: the call, the stream state it
\* started from, and what it returned
LogEntry(self, returned) ==
    [call |-> self.call, mode |-> self.mode,
     stream_at_start |-> self.stream_at_start, returned |-> returned]

\* Faulty variant: the loop of run_bootstrap ends one iteration early
Finish_OneIterationShort(a) ==
    LET self == analyzers[a]
        results == calculate_confidence_intervals(self, self.bootstrap_samples, self.mode)
    IN  /\ self.state = "running"
        /\ self.i = self.n_iterations - 1
        /\ analyzers' = [analyzers EXCEPT ![a] =
              IF self.call = "run_bootstrap"
              THEN [self EXCEPT !.state = "idle", !.returned = results,
                                !.log = Append(@, LogEntry(self, results))]
              ELSE IF self.mode = "assisted"
              THEN [self EXCEPT !.mode = "unaided", !.i = 0,
                                !.bootstrap_samples = NoSamples,
                                !.results_assisted = results]
              ELSE LET all == [made |-> TRUE,
                               assisted |-> self.results_assisted,
                               unaided |-> results,
                               delta |-> calculate_delta(self, self.results_assisted,
                                                         results)]
                   IN  [self EXCEPT !.state = "idle",
                                    !.results_unaided = results,
                                    !.bootstrap_results = all,
                                    !.returned = all,
                                    !.log = Append(@, LogEntry(self, all))]]
        /\ UNCHANGED <<fn, rng, data_assisted, data_unaided, pm, gee, dca, pipe>>

\* bootstrap.py 211-215: run_bootstrap returns; within run_comparison
\* (bootstrap.py 280-295) the unaided run_bootstrap follows the assisted one,
\* and calculate_delta and the store into self.bootstrap_results the unaided
Finish(a) ==
    LET self == analyzers[a]
        results == calculate_confidence_intervals(self, self.bootstrap_samples, self.mode)
    IN  /\ self.state = "running"
        /\ self.i = self.n_iterations
        /\ analyzers' = [analyzers EXCEPT ![a] =
              IF self.call = "run_bootstrap"
              THEN [self EXCEPT !.state = "idle", !.returned = results,
                                !.log = Append(@, LogEntry(self, results))]
              ELSE IF self.mode = "assisted"
              THEN [self EXCEPT !.mode = "unaided", !.i = 0,
                                !.bootstrap_samples = NoSamples,
                                !.results_assisted = results]
              ELSE LET all == [made |-> TRUE,
                               assisted |-> self.results_assisted,
                               unaided |-> results,
                               delta |-> calculate_delta(self, self.results_assisted,
                                                         results)]
                   IN  [self EXCEPT !.state = "idle",
                                    !.results_unaided = results,
                                    !.bootstrap_results = all,
                                    !.returned = all,
                                    !.log = Append(@, LogEntry(self, all))]]
        /\ UNCHANGED <<fn, rng, data_assisted, data_unaided, pm, gee, dca, pipe>>

(***************************************************************************)
(* SpecCmp: one analyzer making one run_comparison on the rows of one      *)
(* reader file.  A row is one reading of a patient in both modes: it gives *)
(* one record to each list (run_bootstrap_analysis.py 77-93), the ground   *)
(* truth being the patient's.                                              *)
(***************************************************************************)
Rows == [patient_id : PatientIds, ground_truth : Labels,
         assisted : Labels, unaided : Labels]

AssistedOf(rows) ==
    [i \in 1..Len(rows) |-> [patient_id |-> rows[i].patient_id,
                             ground_truth |-> rows[i].ground_truth,
                             prediction |-> rows[i].assisted]]

UnaidedOf(rows) ==
    [i \in 1..Len(rows) |-> [patient_id |-> rows[i].patient_id,
                             ground_truth |-> rows[i].ground_truth,
                             prediction |-> rows[i].unaided]]

\* patient ids are opaque: the first row's patient is named P1
RowLists == {rows \in SeqsUpTo(Rows, MaxRows) :
                Len(rows) > 0 => rows[1].patient_id = "P1"}

CmpInit ==
    /\ rng \in RngStates
    /\ analyzers = [a \in Analyzers |-> Unborn]
    /\ \E rows \in RowLists :
          /\ data_assisted = AssistedOf(rows)
          /\ data_unaided = UnaidedOf(rows)
    /\ fnIdle
    /\ pmIdle
    /\ geeIdle
    /\ dcaIdle
    /\ pipeIdle

CmpNext ==
    \/ \E n \in 1..MaxIter, c \in ConfidenceLevels, seed \in Seeds :
          Construct(1, n, c, seed)
    \/ analyzers[1].runs = 0 /\ StartComparison(1)
    \/ Iterate(1)
    \/ Finish(1)

SpecCmp == CmpInit /\ [][CmpNext]_vars

(***************************************************************************)
(* SpecShared: two analyzers of one process, each making one call          *)
(***************************************************************************)
SharedRows ==
    { << [patient_id |-> "P1", ground_truth |-> 1, assisted |-> 1, unaided |-> 1],
         [patient_id |-> "P2", ground_truth |-> 0, assisted |-> 0, unaided |-> 0] >>,
      << [patient_id |-> "P1", ground_truth |-> 1, assisted |-> 1, unaided |-> 0],
         [patient_id |-> "P2", ground_truth |-> 1, assisted |-> 0, unaided |-> 0] >> }

SharedInit ==
    /\ rng \in RngStates
    /\ analyzers = [a \in Analyzers |-> Unborn]
    /\ \E rows \in SharedRows :
          /\ data_assisted = AssistedOf(rows)
          /\ data_unaided = UnaidedOf(rows)
    /\ fnIdle
    /\ pmIdle
    /\ geeIdle
    /\ dcaIdle
    /\ pipeIdle

SharedNext ==
    \E a \in Analyzers :
        \/ \E n \in 1..MaxSharedIter, seed \in Seeds : Construct(a, n, 95, seed)
        \/ analyzers[a].runs = 0 /\ StartComparison(a)
        \/ \E mode \in Modes : analyzers[a].runs = 0 /\ StartBootstrap(a, mode)
        \/ Iterate(a)
        \/ Finish(a)

SpecShared == SharedInit /\ [][SharedNext]_vars

(***************************************************************************)
(* SpecTwice: one analyzer, constructed once and called up to MaxRuns      *)
(* times                                                                   *)
(***************************************************************************)
TwiceInit ==
    /\ rng \in {0, 9}
    /\ analyzers = [a \in Analyzers |-> Unborn]
    /\ \E rows \in SharedRows :
          /\ data_assisted = AssistedOf(rows)
          /\ data_unaided = UnaidedOf(rows)
    /\ fnIdle
    /\ pmIdle
    /\ geeIdle
    /\ dcaIdle
    /\ pipeIdle

TwiceNext ==
    \/ \E n \in 1..MaxSharedIter, seed \in Seeds : Construct(1, n, 95, seed)
    \/ analyzers[1].runs < MaxRuns /\ StartComparison(1)
    \/ \E mode \in Modes : analyzers[1].runs < MaxRuns /\ StartBootstrap(1, mode)
    \/ Iterate(1)
    \/ Finish(1)

SpecTwice == TwiceInit /\ [][TwiceNext]_vars

(***************************************************************************)
(* PatientMetricsCalculator (src/src/patient_metrics.py)                   *)
(***************************************************************************)
\* constants.py 15-16
MODE_ASSISTED == "assisted"
MODE_UNAIDED == "unaided"

\* a row of the data frame: patient_id, mode, ground_truth, prediction
FrameRows == [patient_id : PatientIds, mode : {MODE_ASSISTED, MODE_UNAIDED},
              ground_truth : Labels, prediction : Labels]

DataFrames == SeqsUpTo(FrameRows, MaxPmRows)

RECURSIVE SumOver(_, _)
SumOver(f, S) ==
    IF S = {} THEN 0
    ELSE LET x == CHOOSE y \in S : TRUE IN f[x] + SumOver(f, S \ {x})

\* patient_metrics.py 48-61: groupby([patient_col, "mode"]) and, per group,
\* 1 if x.sum() > 0 else 0 for both labels
aggregate_patient_level(df) ==
    LET keys == {<<df[i].patient_id, df[i].mode>> : i \in 1..Len(df)}
        group(key) == {i \in 1..Len(df) : <<df[i].patient_id, df[i].mode>> = key}
    IN  [key \in keys |->
            [gt_patient |->
                IF SumOver([i \in 1..Len(df) |-> df[i].ground_truth], group(key)) > 0
                THEN 1 ELSE 0,
             pred_patient |->
                IF SumOver([i \in 1..Len(df) |-> df[i].prediction], group(key)) > 0
                THEN 1 ELSE 0]]

\* patient_metrics.py 69-92, on the rows of one mode (patient_metrics.py 151)
calculate_confusion_matrix(patient_df, mode) ==
    LET count(gt, pred) ==
            Cardinality({key \in DOMAIN patient_df :
                            /\ key[2] = mode
                            /\ patient_df[key].gt_patient = gt
                            /\ patient_df[key].pred_patient = pred})
    IN  [TP |-> count(1, 1), FP |-> count(0, 1), FN |-> count(1, 0), TN |-> count(0, 0)]

\* patient_metrics.py 128-185: the modes that have rows, each with its
\* confusion matrix and metrics; a mode without rows is skipped
calculate_by_mode(df) ==
    LET patient_df == aggregate_patient_level(df)
        present == {mode \in {MODE_ASSISTED, MODE_UNAIDED} :
                       \E key \in DOMAIN patient_df : key[2] = mode}
    IN  [mode \in present |->
            LET cm == calculate_confusion_matrix(patient_df, mode)
            IN  [confusion_matrix |-> cm, metrics |-> pm_calculate_metrics(cm)]]

NoDelta == [k \in MetricNames |-> Zero]

\* Faulty variant: the guard joins its two tests with "and"; a missing half reads
\* as 0.0, as create_comparison_table reads it (patient_metrics.py 232-235)
pm_calculate_delta_AndGuard(metrics) ==
    IF MODE_ASSISTED \notin DOMAIN metrics /\ MODE_UNAIDED \notin DOMAIN metrics
    THEN [raised |-> TRUE, delta |-> NoDelta]
    ELSE [raised |-> FALSE,
          delta |-> [k \in MetricNames |->
                RSub(IF MODE_ASSISTED \in DOMAIN metrics
                     THEN metrics[MODE_ASSISTED][k] ELSE Zero,
                     IF MODE_UNAIDED \in DOMAIN metrics
                     THEN metrics[MODE_UNAIDED][k] ELSE Zero)]]

\* patient_metrics.py 187-214: ValueError unless both modes are stored
pm_calculate_delta(metrics) ==
    IF MODE_ASSISTED \notin DOMAIN metrics \/ MODE_UNAIDED \notin DOMAIN metrics
    THEN [raised |-> TRUE, delta |-> NoDelta]
    ELSE [raised |-> FALSE,
          delta |-> [k \in MetricNames |->
                RSub(metrics[MODE_ASSISTED][k], metrics[MODE_UNAIDED][k])]]

\* patient_metrics.py 252-277: ValueError for a mode that is not stored;
\* otherwise a data frame built column by column, each column a list laid
\* along the index ["Actual Positive", "Actual Negative"]:
\*   "Predicted Positive": [cm["TP"], cm["FN"]],
\*   "Predicted Negative": [cm["FP"], cm["TN"]]
create_confusion_matrix_table(confusion_matrices, mode) ==
    IF mode \notin DOMAIN confusion_matrices
    THEN [raised |-> TRUE, table |-> <<>>]
    ELSE LET cm == confusion_matrices[mode]
             index == <<"Actual Positive", "Actual Negative">>
             column(values) ==
                [row \in {index[1], index[2]} |->
                    IF row = index[1] THEN values[1] ELSE values[2]]
         IN  [raised |-> FALSE,
              table |->
                [col \in {"Predicted Positive", "Predicted Negative"} |->
                    IF col = "Predicted Positive"
                    THEN column(<<cm.TP, cm.FN>>)
                    ELSE column(<<cm.FP, cm.TN>>)]]

(***************************************************************************)
(* SpecPm: one PatientMetricsCalculator and the calls made on it           *)
(***************************************************************************)
PmInit ==
    /\ pm = PmFresh
    /\ rng = 0
    /\ bootIdle
    /\ fnIdle
    /\ geeIdle
    /\ dcaIdle
    /\ pipeIdle

\* what calculate_by_mode makes of each data frame, beside the modes that
\* have a row in the frame and the number of its rows
ByModeCalls ==
    {[seen |-> {df[i].mode : i \in 1..Len(df)}, n_rows |-> Len(df),
      results |-> calculate_by_mode(df)] : df \in DataFrames}

\* Faulty variant: the stores are updated in place, so a mode that the frame
\* has no row of keeps what an earlier call stored for it
PmCalculateByMode_Merges ==
    /\ pm.calls < MaxPmCalls
    /\ \E c \in ByModeCalls :
          pm' = [pm EXCEPT
                   !.confusion_matrices =
                       [mode \in DOMAIN c.results \cup DOMAIN pm.confusion_matrices |->
                           IF mode \in DOMAIN c.results
                           THEN c.results[mode].confusion_matrix
                           ELSE pm.confusion_matrices[mode]],
                   !.metrics =
                       [mode \in DOMAIN c.results \cup DOMAIN pm.metrics |->
                           IF mode \in DOMAIN c.results
                           THEN c.results[mode].metrics
                           ELSE pm.metrics[mode]],
                   !.calls = @ + 1, !.last = "calculate_by_mode",
                   !.seen = c.seen, !.n_rows = c.n_rows,
                   !.raised = FALSE, !.delta = NoDelta]
    /\ UNCHANGED <<fn, rng, analyzers, data_assisted, data_unaided, gee, dca, pipe>>

\* calculator.calculate_by_mode(df), patient_metrics.py 177-183: both stores
\* are replaced by what this call computed
PmCalculateByMode ==
    /\ pm.calls < MaxPmCalls
    /\ \E c \in ByModeCalls :
          pm' = [pm EXCEPT
                   !.confusion_matrices =
                       [mode \in DOMAIN c.results |-> c.results[mode].confusion_matrix],
                   !.metrics = [mode \in DOMAIN c.results |-> c.results[mode].metrics],
                   !.calls = @ + 1, !.last = "calculate_by_mode",
                   !.seen = c.seen, !.n_rows = c.n_rows,
                   !.raised = FALSE, !.delta = NoDelta]
    /\ UNCHANGED <<fn, rng, analyzers, data_assisted, data_unaided, gee, dca, pipe>>

\* calculator.calculate_delta()
PmCalculateDelta ==
    /\ pm.calls < MaxPmCalls
    /\ LET r == pm_calculate_delta(pm.metrics)
       IN  pm' = [pm EXCEPT !.calls = @ + 1, !.last = "calculate_delta",
                            !.raised = r.raised, !.delta = r.delta]
    /\ UNCHANGED <<fn, rng, analyzers, data_assisted, data_unaided, gee, dca, pipe>>

\* calculator.create_confusion_matrix_table(mode)
PmCreateConfusionMatrixTable ==
    /\ pm.calls < MaxPmCalls
    /\ \E mode \in {MODE_ASSISTED, MODE_UNAIDED} :
          LET r == create_confusion_matrix_table(pm.confusion_matrices, mode)
          IN  pm' = [pm EXCEPT !.calls = @ + 1,
                               !.last = "create_confusion_matrix_table",
                               !.raised = r.raised, !.table_mode = mode,
                               !.table = r.table]
    /\ UNCHANGED <<fn, rng, analyzers, data_assisted, data_unaided, gee, dca, pipe>>

PmNext == PmCalculateByMode \/ PmCalculateDelta \/ PmCreateConfusionMatrixTable

SpecPm == PmInit /\ [][PmNext]_vars

(***************************************************************************)
(* Vocabulary of the properties                                            *)
(***************************************************************************)
PatientSet(data) == {data[i].patient_id : i \in 1..Len(data)}

GroupOf(data, p) == SelectSeq(data, LAMBDA r : r.patient_id = p)

RECURSIVE Flatten(_)
Flatten(ss) == IF ss = <<>> THEN <<>> ELSE Head(ss) \o Flatten(Tail(ss))

RECURSIVE SumLens(_)
SumLens(ss) == IF ss = <<>> THEN 0 ELSE Len(Head(ss)) + SumLens(Tail(ss))

\* C3: resample_patients draws exactly P ids (P = number of distinct
\* patient_id values) from the input's own patient set and outputs, in draw
\* order, all the records of each drawn patient: P complete groups, of total
\* length the sum of the drawn patients' record counts.
C3_ResampleWholeGroups ==
    fn.op = "resample_patients" =>
        LET P == Cardinality(PatientSet(fn.data))
            groups == [i \in 1..Len(fn.out_ids) |-> GroupOf(fn.data, fn.out_ids[i])]
        IN  /\ ~fn.raised
            /\ Len(fn.out_ids) = P
            /\ \A i \in 1..Len(fn.out_ids) : fn.out_ids[i] \in PatientSet(fn.data)
            /\ fn.out_data = Flatten(groups)
            /\ Len(fn.out_data) = SumLens(groups)
            /\ (P = 1 => Len(fn.out_data) = Len(fn.data))

\* a two-record patient drawn twice beside a second patient: the output is
\* longer than the input
C3_Witness ==
    /\ fn.op = "resample_patients"
    /\ Cardinality(PatientSet(fn.data)) = 2
    /\ Len(fn.out_data) > Len(fn.data)

\* C4: aggregate_to_patient_level returns exactly one record per distinct
\* patient_id; its ground_truth is 1 iff some record of the patient has
\* ground_truth 1, its prediction is 1 iff some record of the patient has
\* prediction 1, each field reduced on its own.
C4_AggregateIsOr ==
    fn.op = "aggregate_to_patient_level" =>
        /\ Len(fn.out_data) = Cardinality(PatientSet(fn.data))
        /\ {fn.out_data[i].patient_id : i \in 1..Len(fn.out_data)} = PatientSet(fn.data)
        /\ \A i \in 1..Len(fn.out_data) :
              LET rec == fn.out_data[i]
                  own == {j \in 1..Len(fn.data) : fn.data[j].patient_id = rec.patient_id}
              IN  /\ rec.ground_truth \in Labels /\ rec.prediction \in Labels
                  /\ rec.ground_truth = 1 <=> \E j \in own : fn.data[j].ground_truth = 1
                  /\ rec.prediction = 1 <=> \E j \in own : fn.data[j].prediction = 1

\* a patient whose positive ground truth and positive prediction sit on two
\* different records, the positive ground truth first
C4_Witness ==
    /\ fn.op = "aggregate_to_patient_level"
    /\ \E i \in 1..Len(fn.out_data) :
          /\ fn.out_data[i].ground_truth = 1 /\ fn.out_data[i].prediction = 1
          /\ \E j, k \in 1..Len(fn.data) :
                /\ j < k
                /\ fn.data[j] = [patient_id |-> fn.out_data[i].patient_id,
                                 ground_truth |-> 1, prediction |-> 0]
                /\ fn.data[k] = [patient_id |-> fn.out_data[i].patient_id,
                                 ground_truth |-> 0, prediction |-> 1]
                /\ Cardinality({m \in 1..Len(fn.data) :
                        fn.data[m].patient_id = fn.out_data[i].patient_id}) = 2

\* the confusion matrix a calculate_metrics call of fn works on
FnCounts ==
    IF fn.kind = "cm" THEN fn.cm
    ELSE [TP |-> CountRecords(fn.data, 1, 1), FP |-> CountRecords(fn.data, 0, 1),
          FN |-> CountRecords(fn.data, 1, 0), TN |-> CountRecords(fn.data, 0, 0)]

\* C5: in both calculate_metrics, a rate whose denominator is zero is exactly
\* 0.0 and nothing is raised.
C5_ZeroDenominatorIsZero ==
    fn.op \in {"calculate_metrics", "pm_calculate_metrics"} =>
        LET c == FnCounts
            m == fn.out_metrics
        IN  /\ ~fn.raised
            /\ \A k \in MetricNames : IsValue(m[k])
            /\ (c.TP + c.FN = 0 => m.sensitivity = Zero)
            /\ (c.TN + c.FP = 0 => m.specificity = Zero)
            /\ (c.TP + c.FP = 0 => m.ppv = Zero)
            /\ (c.TN + c.FN = 0 => m.npv = Zero)

\* the all-zero matrix given to PatientMetricsCalculator.calculate_metrics
C5_Witness ==
    /\ fn.op = "pm_calculate_metrics"
    /\ fn.cm = [TP |-> 0, FP |-> 0, FN |-> 0, TN |-> 0]
    /\ \A k \in MetricNames : fn.out_metrics[k] = Zero

(***************************************************************************)
(* Properties of one run_comparison (SpecCmp)                              *)
(***************************************************************************)
AllZeroBlock(block, n) ==
    /\ block.made
    /\ \A k \in MetricNames :
          /\ Len(block.metrics[k].samples) = n
          /\ \A i \in 1..n : block.metrics[k].samples[i] = Zero
          /\ block.metrics[k].mean = Zero
          /\ block.metrics[k].ci_lower = Zero
          /\ block.metrics[k].ci_upper = Zero

\* C6: on an empty record list run_bootstrap and run_comparison raise
\* nothing and return complete results whose every raw sample, mean and CI
\* bound is 0.0, for each of the four metrics.
C6_EmptyInputAllZero ==
    \A a \in Analyzers :
        LET self == analyzers[a]
        IN  /\ (self.state = "raised" => DataOf(self.mode) # <<>>)
            /\ (data_assisted = <<>> /\ self.results_assisted.made
                   => AllZeroBlock(self.results_assisted, self.n_iterations))
            /\ (data_unaided = <<>> /\ self.results_unaided.made
                   => AllZeroBlock(self.results_unaided, self.n_iterations))
            /\ (data_assisted = <<>> /\ data_unaided = <<>> /\ self.returned.made
                   => /\ AllZeroBlock(self.returned.assisted, self.n_iterations)
                      /\ AllZeroBlock(self.returned.unaided, self.n_iterations)
                      /\ DOMAIN self.returned.delta.metrics = MetricNames)

\* a run_comparison of several iterations on empty lists has returned
C6_Witness ==
    /\ data_assisted = <<>> /\ data_unaided = <<>>
    /\ analyzers[1].n_iterations >= 2
    /\ analyzers[1].state = "idle"
    /\ analyzers[1].returned.made

\* the result blocks an analyzer holds: assisted, unaided, delta
BlocksOf(self) ==
    (IF self.results_assisted.made THEN {self.results_assisted.metrics} ELSE {})
    \cup (IF self.results_unaided.made THEN {self.results_unaided.metrics} ELSE {})
    \cup (IF self.returned.made /\ self.call = "run_comparison"
          THEN {self.returned.delta.metrics} ELSE {})
    \cup (IF self.returned.made /\ self.call = "run_bootstrap"
          THEN {self.returned.metrics} ELSE {})

\* C7: in every result block (assisted, unaided, delta) made with
\* n_iterations >= 1, ci_lower <= ci_upper for every metric.
C7_CiOrdered ==
    \A a \in Analyzers :
        analyzers[a].n_iterations >= 1 =>
            \A block \in BlocksOf(analyzers[a]) : \A k \in MetricNames :
                /\ IsValue(block[k].ci_lower) /\ IsValue(block[k].ci_upper)
                /\ block[k].ci_lower[1] * block[k].ci_upper[2]
                       <= block[k].ci_upper[1] * block[k].ci_lower[2]

\* a delta block whose samples are not in ascending order and whose interval
\* has two different bounds
C7_Witness ==
    /\ analyzers[1].returned.made
    /\ \E k \in MetricNames :
          LET d == analyzers[1].returned.delta.metrics[k]
          IN  /\ d.ci_lower # d.ci_upper
              /\ \E i \in 1..(Len(d.samples) - 1) : RLt(d.samples[i + 1], d.samples[i])

\* C8: the delta samples of each metric are n_iterations long and the i-th
\* is the i-th assisted sample minus the i-th unaided sample.
C8_DeltaElementwise ==
    \A a \in Analyzers :
        LET self == analyzers[a]
        IN  self.returned.made /\ self.call = "run_comparison" =>
                \A k \in MetricNames :
                    LET d == self.returned.delta.metrics[k].samples
                        x == self.returned.assisted.metrics[k].samples
                        y == self.returned.unaided.metrics[k].samples
                    IN  /\ Len(d) = self.n_iterations
                        /\ Len(x) = self.n_iterations
                        /\ Len(y) = self.n_iterations
                        /\ \A i \in 1..self.n_iterations :
                              /\ d[i][2] > 0
                              /\ d[i][1] * x[i][2] * y[i][2]
                                    = (x[i][1] * y[i][2] - y[i][1] * x[i][2]) * d[i][2]

\* both sample sequences of a metric vary from one iteration to the next and
\* some delta is not zero
C8_Witness ==
    /\ analyzers[1].returned.made
    /\ \E k \in MetricNames :
          LET d == analyzers[1].returned.delta.metrics[k].samples
              x == analyzers[1].returned.assisted.metrics[k].samples
              y == analyzers[1].returned.unaided.metrics[k].samples
          IN  /\ \E i, j \in 1..Len(x) : x[i] # x[j]
              /\ \E i, j \in 1..Len(y) : y[i] # y[j]
              /\ y[1] # y[Len(y)]
              /\ \E i \in 1..Len(d) : d[i] # Zero

\* C9: a delta metric is flagged significant iff ci_lower > 0 or
\* ci_upper < 0; an interval with a bound equal to 0 is not significant.
C9_SignificantIffExcludesZero ==
    \A a \in Analyzers :
        LET self == analyzers[a]
        IN  self.returned.made /\ self.call = "run_comparison" =>
                \A k \in MetricNames :
                    LET d == self.returned.delta.metrics[k]
                    IN  /\ d.significant <=> (d.ci_lower[1] > 0 \/ d.ci_upper[1] < 0)
                        /\ (d.ci_lower[1] = 0 \/ d.ci_upper[1] = 0) => ~d.significant

\* an interval that ends exactly at 0 and is not a single point, beside a
\* metric of the same run that is significant
C9_Witness ==
    /\ analyzers[1].returned.made
    /\ \E k \in MetricNames :
          LET d == analyzers[1].returned.delta.metrics[k]
          IN  /\ d.ci_lower # d.ci_upper
              /\ d.ci_lower = Zero \/ d.ci_upper = Zero
              /\ ~d.significant
    /\ \E k \in MetricNames : analyzers[1].returned.delta.metrics[k].significant

(***************************************************************************)
(* Properties of two analyzers in one process (SpecShared)                 *)
(***************************************************************************)
\* the raw samples a finished call returned, one block per run_bootstrap
SamplesOf(self) ==
    IF self.call = "run_bootstrap"
    THEN << [k \in MetricNames |-> self.returned.metrics[k].samples] >>
    ELSE << [k \in MetricNames |-> self.returned.assisted.metrics[k].samples],
            [k \in MetricNames |-> self.returned.unaided.metrics[k].samples] >>

\* the samples and the stream after n iterations on data from stream state g
RECURSIVE IterateAlone(_, _, _, _)
IterateAlone(data, n, g, acc) ==
    IF n = 0 THEN [samples |-> acc, rng |-> g]
    ELSE LET it == bootstrap_single_iteration(data, g)
         IN  IterateAlone(data, n - 1, it.rng,
                 [k \in MetricNames |-> Append(acc[k], it.metrics[k])])

\* what the call of self returns when nothing else runs between the
\* construction of self and the end of its call
AloneSamples(self) ==
    IF self.call = "run_bootstrap"
    THEN << IterateAlone(DataOf(self.mode), self.n_iterations,
                         RngSeed(self.random_seed), NoSamples).samples >>
    ELSE LET first == IterateAlone(data_assisted, self.n_iterations,
                                   RngSeed(self.random_seed), NoSamples)
             second == IterateAlone(data_unaided, self.n_iterations,
                                    first.rng, NoSamples)
         IN  << first.samples, second.samples >>

\* C1: two analyzers constructed with the same random_seed and n_iterations
\* and run with the same call on the same input return identical raw sample
\* sequences, whatever the order of the constructions and the runs.
C1_SameSeedSameSamples ==
    \A a, b \in Analyzers :
        LET x == analyzers[a]
            y == analyzers[b]
        IN  (/\ x.returned.made /\ y.returned.made
             /\ x.random_seed = y.random_seed
             /\ x.n_iterations = y.n_iterations
             /\ x.call = y.call /\ x.mode = y.mode)
            => SamplesOf(x) = SamplesOf(y)

\* C2: the raw samples a run returns are those it returns when it executes
\* alone, whatever another analyzer's construction or iterations do between
\* its own steps.
C2_RunUnaffectedByOthers ==
    \A a \in Analyzers :
        analyzers[a].returned.made => SamplesOf(analyzers[a]) = AloneSamples(analyzers[a])

(***************************************************************************)
(* Properties of the PatientMetricsCalculator (SpecPm)                     *)
(***************************************************************************)
\* the modes that have a row in the data frame of the latest calculate_by_mode
ModesSeen == pm.seen

\* C10: calculate_delta raises whenever the assisted and the unaided metrics
\* have not both been computed by the latest calculate_by_mode (none made,
\* or one that saw a single mode); once both exist it returns the four
\* deltas, each the assisted metric minus the unaided one.
C10_DeltaNeedsBothHalves ==
    pm.last = "calculate_delta" =>
        /\ pm.raised <=> ~({MODE_ASSISTED, MODE_UNAIDED} \subseteq ModesSeen)
        /\ ~pm.raised =>
              /\ DOMAIN pm.delta = MetricNames
              /\ \A k \in MetricNames :
                    LET x == pm.metrics[MODE_ASSISTED][k]
                        y == pm.metrics[MODE_UNAIDED][k]
                    IN  /\ pm.delta[k][2] > 0
                        /\ pm.delta[k][1] * x[2] * y[2]
                              = (x[1] * y[2] - y[1] * x[2]) * pm.delta[k][2]

\* calculate_delta has raised after a calculate_by_mode that saw only the
\* assisted rows of two patients
C10_Witness ==
    /\ pm.last = "calculate_delta"
    /\ pm.raised
    /\ pm.n_rows = 2
    /\ ModesSeen = {MODE_ASSISTED}

\* C20: the table create_confusion_matrix_table(mode) returns has the rows
\* 'Actual Positive' / 'Actual Negative' and the columns 'Predicted Positive'
\* / 'Predicted Negative', and each cell holds the stored count of that mode
\* that its labels name: TP and FN in the 'Actual Positive' row, FP and TN
\* in the 'Actual Negative' row.
C20_TableCellsByMeaning ==
    (pm.last = "create_confusion_matrix_table" /\ ~pm.raised) =>
        LET cm == pm.confusion_matrices[pm.table_mode]
            t == pm.table
        IN  /\ DOMAIN t = {"Predicted Positive", "Predicted Negative"}
            /\ \A col \in DOMAIN t :
                  DOMAIN t[col] = {"Actual Positive", "Actual Negative"}
            /\ t["Predicted Positive"]["Actual Positive"] = cm.TP
            /\ t["Predicted Negative"]["Actual Positive"] = cm.FN
            /\ t["Predicted Positive"]["Actual Negative"] = cm.FP
            /\ t["Predicted Negative"]["Actual Negative"] = cm.TN

(***************************************************************************)
(* Decision curve analysis (src/src/dca.py)                                *)
(***************************************************************************)
\* float division of two floats; nan or inf (no value) for a zero divisor
RDiv(x, y) ==
    IF y[1] = 0 THEN NoValue
    ELSE IF y[1] > 0 THEN Rat(x[1] * y[2], x[2] * y[1])
    ELSE Rat(-(x[1] * y[2]), -(x[2] * y[1]))

\* Faulty variant: endpoint=False, the step is (stop - start) / num
np_linspace_EndpointExcluded(start, stop, num) ==
    [i \in 1..num |->
        RAdd(start, RMul(Rat(i - 1, 1), RDiv(RSub(stop, start), Rat(num, 1))))]

\* np.linspace(start, stop, num): num evenly spaced points from start; stop is
\* the last of them when num > 1, and for num = 1 the only point is start
np_linspace(start, stop, num) ==
    IF num = 1 THEN <<start>>
    ELSE [i \in 1..num |->
            RAdd(start, RMul(Rat(i - 1, 1), RDiv(RSub(stop, start), Rat(num - 1, 1))))]

\* dca.py 94 and 117
harm_benefit_ratio(threshold) ==
    IF RLt(threshold, <<1, 1>>)
    THEN RDiv(threshold, RSub(<<1, 1>>, threshold))
    ELSE Zero

\* Faulty variant: the ratio upside down, (1 - t) / t
calculate_net_benefit_InverseRatio(tp, fp, fn_, tn, threshold) ==
    LET n == tp + fp + fn_ + tn
    IN  IF n = 0 THEN Zero
        ELSE RSub(PyDiv(tp, n),
                  RMul(PyDiv(fp, n), RDiv(RSub(<<1, 1>>, threshold), threshold)))

\* Faulty variant: threshold / (1 - threshold) evaluated whatever the threshold
calculate_net_benefit_Unguarded(tp, fp, fn_, tn, threshold) ==
    LET n == tp + fp + fn_ + tn
    IN  IF n = 0 THEN Zero
        ELSE IF threshold = <<1, 1>> THEN NoValue
        ELSE RSub(PyDiv(tp, n),
                  RMul(PyDiv(fp, n), RDiv(threshold, RSub(<<1, 1>>, threshold))))

\* dca.py 64-99
calculate_net_benefit(tp, fp, fn_, tn, threshold) ==
    LET n == tp + fp + fn_ + tn
    IN  IF n = 0 THEN Zero
        ELSE LET tp_rate == PyDiv(tp, n)
                 fp_rate == PyDiv(fp, n)
             IN  RSub(tp_rate, RMul(fp_rate, harm_benefit_ratio(threshold)))

\* dca.py 101-120
treat_all_net_benefit(prevalence, threshold) ==
    RSub(prevalence, RMul(RSub(<<1, 1>>, prevalence), harm_benefit_ratio(threshold)))

\* dca.py 122-131
treat_none_net_benefit == Zero

\* Faulty variant: the treat-none curve filled with the treat-all values
analyze_strategy_NoneIsAll(self, confusion_matrix, strategy_name) ==
    LET tp == confusion_matrix.TP
        fp == confusion_matrix.FP
        fn_ == confusion_matrix.FN
        tn == confusion_matrix.TN
        n == tp + fp + fn_ + tn
        prevalence == IF n > 0 THEN PyDiv(tp + fn_, n) ELSE Zero
        all == [i \in 1..Len(self.thresholds) |->
                   treat_all_net_benefit(prevalence, self.thresholds[i])]
    IN  [made |-> TRUE, raised |-> self.thresholds = <<>>,
         strategy_name |-> strategy_name, prevalence |-> prevalence, n |-> n,
         confusion_matrix |-> confusion_matrix, thresholds |-> self.thresholds,
         net_benefit_model |->
            [i \in 1..Len(self.thresholds) |->
                calculate_net_benefit(tp, fp, fn_, tn, self.thresholds[i])],
         net_benefit_treat_all |-> all,
         net_benefit_treat_none |-> all]

\* dca.py 133-188: the three curves over self.thresholds.  The log line of
\* dca.py 186 takes max() of the model curve, a ValueError on an empty grid.
analyze_strategy(self, confusion_matrix, strategy_name) ==
    LET tp == confusion_matrix.TP
        fp == confusion_matrix.FP
        fn_ == confusion_matrix.FN
        tn == confusion_matrix.TN
        n == tp + fp + fn_ + tn
        prevalence == IF n > 0 THEN PyDiv(tp + fn_, n) ELSE Zero
    IN  [made |-> TRUE, raised |-> self.thresholds = <<>>,
         strategy_name |-> strategy_name, prevalence |-> prevalence, n |-> n,
         confusion_matrix |-> confusion_matrix, thresholds |-> self.thresholds,
         net_benefit_model |->
            [i \in 1..Len(self.thresholds) |->
                calculate_net_benefit(tp, fp, fn_, tn, self.thresholds[i])],
         net_benefit_treat_all |->
            [i \in 1..Len(self.thresholds) |->
                treat_all_net_benefit(prevalence, self.thresholds[i])],
         net_benefit_treat_none |->
            [i \in 1..Len(self.thresholds) |-> treat_none_net_benefit]]

\* Faulty variant: the difference taken the other way round
compare_strategies_UnaidedMinusAssisted(self, cm_assisted, cm_unaided) ==
    LET results_assisted == analyze_strategy(self, cm_assisted, "Assisted (With AI)")
        results_unaided == analyze_strategy(self, cm_unaided, "Unaided (Without AI)")
    IN  [made |-> TRUE,
         raised |-> results_assisted.raised \/ results_unaided.raised,
         assisted |-> results_assisted, unaided |-> results_unaided,
         delta_net_benefit |->
            [i \in 1..Len(self.thresholds) |->
                RSub(results_unaided.net_benefit_model[i],
                     results_assisted.net_benefit_model[i])],
         thresholds |-> self.thresholds]

\* dca.py 190-250
compare_strategies(self, cm_assisted, cm_unaided) ==
    LET results_assisted == analyze_strategy(self, cm_assisted, "Assisted (With AI)")
        results_unaided == analyze_strategy(self, cm_unaided, "Unaided (Without AI)")
    IN  [made |-> TRUE,
         raised |-> results_assisted.raised \/ results_unaided.raised,
         assisted |-> results_assisted, unaided |-> results_unaided,
         delta_net_benefit |->
            [i \in 1..Len(self.thresholds) |->
                RSub(results_assisted.net_benefit_model[i],
                     results_unaided.net_benefit_model[i])],
         thresholds |-> self.thresholds]

(***************************************************************************)
(* SpecDca: one DecisionCurveAnalyzer, constructed and called once         *)
(***************************************************************************)
\* constants.py 59-60 and the callers' grids, with one grid that ends at 1
\* and one that ends above 1
ThresholdMins == {<<1, 20>>, <<1, 10>>}
ThresholdMaxs == {<<1, 4>>, <<1, 2>>, <<1, 1>>, <<3, 2>>}

\* thresholds handed to calculate_net_benefit directly
Thresholds == {<<1, 20>>, <<1, 10>>, <<1, 4>>, <<1, 2>>, <<9, 10>>, <<1, 1>>,
               <<3, 2>>}

\* the worked example of the specification: N = 200, prevalence 0.5
ExampleMatrix == [TP |-> 90, FP |-> 10, FN |-> 10, TN |-> 90]

DcaMatrices ==
    [TP : 0..MaxDcaCount, FP : 0..MaxDcaCount,
     FN : 0..MaxDcaCount, TN : 0..MaxDcaCount] \cup {ExampleMatrix}

DcaInit ==
    /\ dca = DcaUnborn
    /\ rng = 0
    /\ bootIdle
    /\ fnIdle
    /\ pmIdle
    /\ geeIdle
    /\ pipeIdle

\* dca.py 42-62: DecisionCurveAnalyzer(threshold_min, threshold_max, n_thresholds)
DcaConstruct ==
    /\ dca.state = "unborn"
    /\ \E lo \in ThresholdMins, hi \in ThresholdMaxs, n \in 0..MaxThresholds :
          dca' = [DcaUnborn EXCEPT !.state = "ready", !.threshold_min = lo,
                                   !.threshold_max = hi, !.n_thresholds = n,
                                   !.thresholds = np_linspace(lo, hi, n)]
    /\ UNCHANGED <<fn, rng, analyzers, data_assisted, data_unaided, pm, gee, pipe>>

\* analyzer.calculate_net_benefit(tp, fp, fn, tn, threshold)
DcaCalculateNetBenefit ==
    /\ dca.state = "ready"
    /\ \E cm \in DcaMatrices, t \in Thresholds :
          dca' = [dca EXCEPT !.state = "called", !.last = "calculate_net_benefit",
                             !.cm_assisted = cm, !.threshold = t,
                             !.returned = [made |-> TRUE,
                                           value |-> calculate_net_benefit(
                                               cm.TP, cm.FP, cm.FN, cm.TN, t)]]
    /\ UNCHANGED <<fn, rng, analyzers, data_assisted, data_unaided, pm, gee, pipe>>

\* analyzer.analyze_strategy(confusion_matrix)
DcaAnalyzeStrategy ==
    /\ dca.state = "ready"
    /\ \E cm \in DcaMatrices :
          LET r == analyze_strategy(dca, cm, "Model")
          IN  dca' = [dca EXCEPT !.state = "called", !.last = "analyze_strategy",
                                 !.cm_assisted = cm, !.raised = r.raised,
                                 !.returned = IF r.raised THEN NoResults ELSE r]
    /\ UNCHANGED <<fn, rng, analyzers, data_assisted, data_unaided, pm, gee, pipe>>

\* analyzer.compare_strategies(cm_assisted, cm_unaided); self.results is
\* assigned at dca.py 220, after both analyze_strategy calls returned
DcaCompareStrategies ==
    /\ dca.state = "ready"
    /\ \E cm_assisted \in DcaMatrices, cm_unaided \in DcaMatrices :
          LET r == compare_strategies(dca, cm_assisted, cm_unaided)
          IN  dca' = [dca EXCEPT !.state = "called", !.last = "compare_strategies",
                                 !.cm_assisted = cm_assisted,
                                 !.cm_unaided = cm_unaided, !.raised = r.raised,
                                 !.results = IF r.raised THEN NoResults ELSE r,
                                 !.returned = IF r.raised THEN NoResults ELSE r]
    /\ UNCHANGED <<fn, rng, analyzers, data_assisted, data_unaided, pm, gee, pipe>>

DcaNext ==
    \/ DcaConstruct
    \/ DcaCalculateNetBenefit
    \/ DcaAnalyzeStrategy
    \/ DcaCompareStrategies

SpecDca == DcaInit /\ [][DcaNext]_vars

(***************************************************************************)
(* GEE analysis (src/src/gee_analysis.py), design matrix [intercept, mode] *)
(*                                                                         *)
(* Estimation is exact.  For this design the likelihood of                 *)
(* logistic_regression is maximal where the fitted probability of each     *)
(* mode equals the share of outcomes 1 among its rows, so the maximiser    *)
(* is the logarithm of rationals.  A coefficient b is held as the rational *)
(* exp(2b): sums of coefficients are products, and expit takes a square    *)
(* root of a square.  The model covers record lists on which the maximum   *)
(* exists (each mode present has both outcomes) and the empty list.        *)
(***************************************************************************)
\* np.array: a sequence held by its values
np_array(s) == s \o <<>>

\* integer square root of a perfect square
ISqrt(n) == CHOOSE r \in 0..n : r * r = n

\* square root of a rational that is a square
RSqrt(x) == <<ISqrt(x[1]), ISqrt(x[2])>>

RECURSIVE RSumSet(_, _)
RSumSet(f, S) ==
    IF S = {} THEN Zero
    ELSE LET x == CHOOSE y \in S : TRUE IN RAdd(f[x], RSumSet(f, S \ {x}))

\* np.clip(x, lo, hi)
np_clip(x, lo, hi) == IF RLt(x, lo) THEN lo ELSE IF RLt(hi, x) THEN hi ELSE x

\* the clusters of prepare_data in the order of their first record
\* (gee_analysis.py 78-80: a dict keeps insertion order)
RECURSIVE cluster_order(_, _, _)
cluster_order(data, i, acc) ==
    IF i > Len(data) THEN acc
    ELSE cluster_order(data, i + 1,
            IF \E j \in 1..Len(acc) : acc[j] = data[i].patient_id
            THEN acc ELSE Append(acc, data[i].patient_id))

RECURSIVE concat_clusters(_, _, _)
concat_clusters(data, order, i) ==
    IF i > Len(order) THEN <<>>
    ELSE SelectSeq(data, LAMBDA r : r.patient_id = order[i])
            \o concat_clusters(data, order, i + 1)

\* gee_analysis.py 62-108: rows cluster by cluster.  On an empty list X is
\* np.array([]), of shape (0,), and X.shape[1] in the log line of
\* gee_analysis.py 105 is an IndexError.
prepare_data(data) ==
    LET order == cluster_order(data, 1, <<>>)
        rows == concat_clusters(data, order, 1)
    IN  [raised |-> data = <<>>,
         y |-> np_array([i \in 1..Len(rows) |-> rows[i].outcome]),
         X |-> np_array([i \in 1..Len(rows) |-> <<1, rows[i].mode>>]),
         cluster_ids |-> np_array([i \in 1..Len(rows) |-> rows[i].patient_id]),
         cluster_sizes |->
            np_array([i \in 1..Len(order) |->
                Len(SelectSeq(data, LAMBDA r : r.patient_id = order[i]))])]

\* rows of mode m, and those among them with outcome 1
ModeRows(X, m) == {i \in 1..Len(X) : X[i][2] = m}
ModeOnes(y, X, m) == {i \in ModeRows(X, m) : y[i] = 1}

\* a mode all of whose rows have the same outcome: the likelihood has no maximum
Separated(y, X) ==
    \E m \in {0, 1} :
        /\ ModeRows(X, m) # {}
        /\ ModeOnes(y, X, m) \in {{}, ModeRows(X, m)}

\* Faulty variant: the reference level of mode is the mode of the last row,
\* so that the estimate depends on the order of the rows
logistic_regression_LastRowReference(y, X) ==
    LET ref == X[Len(X)][2]
        odds(m) == Rat(Cardinality(ModeOnes(y, X, m)),
                       Cardinality(ModeRows(X, m)) - Cardinality(ModeOnes(y, X, m)))
    IN  IF ModeRows(X, 1 - ref) = {}
        THEN <<RMul(odds(ref), odds(ref)), <<1, 1>>>>
        ELSE <<RMul(odds(ref), odds(ref)),
               RMul(RDiv(odds(1 - ref), odds(ref)), RDiv(odds(1 - ref), odds(ref)))>>

\* gee_analysis.py 110-142: the minimiser of the negative log-likelihood that
\* BFGS reaches from beta = 0; each entry is exp(2 * coefficient).  With both
\* modes present: intercept = log odds of mode 0, slope = log odds ratio.
\* With one mode the columns are collinear and the search, which moves along
\* the gradient from 0, keeps the slope at 0 (mode 0) or equal to the
\* intercept (mode 1).
logistic_regression(y, X) ==
    LET odds(m) == Rat(Cardinality(ModeOnes(y, X, m)),
                       Cardinality(ModeRows(X, m)) - Cardinality(ModeOnes(y, X, m)))
    IN  IF ModeRows(X, 1) = {}
        THEN <<RMul(odds(0), odds(0)), <<1, 1>>>>
        ELSE IF ModeRows(X, 0) = {}
        THEN <<odds(1), odds(1)>>
        ELSE <<RMul(odds(0), odds(0)),
               RMul(RDiv(odds(1), odds(0)), RDiv(odds(1), odds(0)))>>

\* gee_analysis.py 288: mu = expit(X @ beta), row by row
expit_linear(X, beta) ==
    np_array([i \in 1..Len(X) |->
        LET exp2 == IF X[i][2] = 1 THEN RMul(beta[1], beta[2]) ELSE beta[1]
            e == RSqrt(exp2)
        IN  RDiv(e, RAdd(<<1, 1>>, e))])

\* the positions of each cluster, as clusters.items() of gee_analysis.py
\* 168-173 and 235-237
ClusterIndices(cluster_ids) ==
    {{i \in 1..Len(cluster_ids) : cluster_ids[i] = cluster_ids[k]} :
        k \in 1..Len(cluster_ids)}

\* Faulty variant: the products of all pairs of rows, whatever their clusters
compute_working_correlation_AllPairs(y, mu, cluster_ids) ==
    LET residuals == np_array([i \in 1..Len(y) |-> RSub(<<y[i], 1>>, mu[i])])
        pairs == {p \in (1..Len(y)) \X (1..Len(y)) : p[1] < p[2]}
        correlations == [p \in pairs |-> RMul(residuals[p[1]], residuals[p[2]])]
    IN  IF pairs = {} THEN Zero
        ELSE np_clip(RDiv(RSumSet(correlations, pairs), <<Cardinality(pairs), 1>>),
                     <<-99, 100>>, <<99, 100>>)

\* Faulty variant: the inner loop starts at i, so a row is paired with itself
compute_working_correlation_WithSelfPairs(y, mu, cluster_ids) ==
    LET residuals == np_array([i \in 1..Len(y) |-> RSub(<<y[i], 1>>, mu[i])])
        pairs == {p \in (1..Len(y)) \X (1..Len(y)) :
                     /\ p[1] <= p[2]
                     /\ cluster_ids[p[1]] = cluster_ids[p[2]]
                     /\ \E k \in 1..Len(y) : k # p[1] /\ cluster_ids[k] = cluster_ids[p[1]]}
        correlations == [p \in pairs |-> RMul(residuals[p[1]], residuals[p[2]])]
    IN  IF pairs = {} THEN Zero
        ELSE np_clip(RDiv(RSumSet(correlations, pairs), <<Cardinality(pairs), 1>>),
                     <<-99, 100>>, <<99, 100>>)

\* gee_analysis.py 144-196: mean of the products of the residuals of every
\* pair of rows of one cluster, clipped to [-0.99, 0.99]; 0.0 without a pair
compute_working_correlation(y, mu, cluster_ids) ==
    LET residuals == np_array([i \in 1..Len(y) |-> RSub(<<y[i], 1>>, mu[i])])
        pairs == {p \in (1..Len(y)) \X (1..Len(y)) :
                     /\ p[1] < p[2]
                     /\ cluster_ids[p[1]] = cluster_ids[p[2]]}
        correlations == [p \in pairs |-> RMul(residuals[p[1]], residuals[p[2]])]
    IN  IF pairs = {} THEN Zero
        ELSE np_clip(RDiv(RSumSet(correlations, pairs), <<Cardinality(pairs), 1>>),
                     <<-99, 100>>, <<99, 100>>)

\* 2 x 2 matrices of rationals, <<row 1, row 2>>
ZeroMatrix == << <<Zero, Zero>>, <<Zero, Zero>> >>

MatAdd(M, N) == [i \in 1..2 |-> [j \in 1..2 |-> RAdd(M[i][j], N[i][j])]]

MatMul(M, N) ==
    [i \in 1..2 |-> [j \in 1..2 |->
        RAdd(RMul(M[i][1], N[1][j]), RMul(M[i][2], N[2][j]))]]

MatScale(c, M) == [i \in 1..2 |-> [j \in 1..2 |-> RMul(c, M[i][j])]]

np_outer(u, v) == [i \in 1..2 |-> [j \in 1..2 |-> RMul(u[i], v[j])]]

Det(M) == RSub(RMul(M[1][1], M[2][2]), RMul(M[1][2], M[2][1]))

RECURSIVE MatSumSet(_, _)
MatSumSet(f, S) ==
    IF S = {} THEN ZeroMatrix
    ELSE LET x == CHOOSE y \in S : TRUE IN MatAdd(f[x], MatSumSet(f, S \ {x}))

\* np.linalg.inv: LinAlgError for a singular matrix
np_linalg_inv(M) ==
    IF Det(M) = Zero
    THEN [raised |-> TRUE, value |-> ZeroMatrix]
    ELSE [raised |-> FALSE,
          value |-> MatScale(RDiv(<<1, 1>>, Det(M)),
                             << <<M[2][2], RSub(Zero, M[1][2])>>,
                                <<RSub(Zero, M[2][1]), M[1][1]>> >>)]

\* np.linalg.pinv of a singular symmetric positive semi-definite matrix: its
\* only non-zero eigenvalue is its trace, so the pseudo-inverse is M / trace^2
np_linalg_pinv(M) ==
    LET trace == RAdd(M[1][1], M[2][2])
    IN  IF trace = Zero THEN ZeroMatrix
        ELSE MatScale(RDiv(<<1, 1>>, RMul(trace, trace)), M)

\* gee_analysis.py 228: the floor of the weights mu * (1 - mu).  The code's
\* floor is 1e-10; every positive floor below the smallest weight of the
\* record lists covered acts alike, and this one fits the integers at hand.
WeightFloor == <<1, 1000000>>

\* Faulty variant: the LinAlgError of np.linalg.inv is let through
sandwich_variance_NoFallback(X, y, mu, cluster_ids, alpha) ==
    LET w == np_array([i \in 1..Len(X) |->
                 np_clip(RMul(mu[i], RSub(<<1, 1>>, mu[i])), WeightFloor, <<1, 1>>)])
        x(i) == <<Rat(X[i][1], 1), Rat(X[i][2], 1)>>
        A == MatSumSet([i \in 1..Len(X) |-> MatScale(w[i], np_outer(x(i), x(i)))],
                       1..Len(X))
        inv == np_linalg_inv(A)
    IN  [raised |-> inv.raised, used_pinv |-> FALSE, A |-> A, B |-> ZeroMatrix,
         A_inv |-> inv.value, V_robust |-> inv.value]

\* Faulty variant: the empirical middle B is scaled by 1 - alpha, so the
\* working correlation reaches the robust covariance
sandwich_variance_UsesAlpha(X, y, mu, cluster_ids, alpha) ==
    LET w == np_array([i \in 1..Len(X) |->
                 np_clip(RMul(mu[i], RSub(<<1, 1>>, mu[i])), WeightFloor, <<1, 1>>)])
        x(i) == <<Rat(X[i][1], 1), Rat(X[i][2], 1)>>
        A == MatSumSet([i \in 1..Len(X) |-> MatScale(w[i], np_outer(x(i), x(i)))],
                       1..Len(X))
        clusters == ClusterIndices(cluster_ids)
        score(indices) ==
            LET r == [i \in indices |-> RSub(<<y[i], 1>>, mu[i])]
            IN  <<RSumSet([i \in indices |-> RMul(x(i)[1], r[i])], indices),
                  RSumSet([i \in indices |-> RMul(x(i)[2], r[i])], indices)>>
        B == MatScale(RSub(<<1, 1>>, alpha),
                      MatSumSet([c \in clusters |-> np_outer(score(c), score(c))],
                                clusters))
        inv == np_linalg_inv(A)
        A_inv == IF inv.raised THEN np_linalg_pinv(A) ELSE inv.value
    IN  [raised |-> FALSE, used_pinv |-> inv.raised, A |-> A, B |-> B,
         A_inv |-> A_inv, V_robust |-> MatMul(MatMul(A_inv, B), A_inv)]

\* gee_analysis.py 198-263: A = X'WX, B = sum over clusters of the outer
\* product of the cluster's score X_i' (y_i - mu_i), V = A^-1 B A^-1, the
\* inverse replaced by the pseudo-inverse when np.linalg.inv raises.  The
\* weights are clipped from below; alpha is not used.
sandwich_variance(X, y, mu, cluster_ids, alpha) ==
    LET w == np_array([i \in 1..Len(X) |->
                 np_clip(RMul(mu[i], RSub(<<1, 1>>, mu[i])), WeightFloor, <<1, 1>>)])
        x(i) == <<Rat(X[i][1], 1), Rat(X[i][2], 1)>>
        A == MatSumSet([i \in 1..Len(X) |-> MatScale(w[i], np_outer(x(i), x(i)))],
                       1..Len(X))
        clusters == ClusterIndices(cluster_ids)
        score(indices) ==
            LET r == [i \in indices |-> RSub(<<y[i], 1>>, mu[i])]
            IN  <<RSumSet([i \in indices |-> RMul(x(i)[1], r[i])], indices),
                  RSumSet([i \in indices |-> RMul(x(i)[2], r[i])], indices)>>
        B == MatSumSet([c \in clusters |-> np_outer(score(c), score(c))], clusters)
        inv == np_linalg_inv(A)
        A_inv == IF inv.raised THEN np_linalg_pinv(A) ELSE inv.value
    IN  [raised |-> FALSE, used_pinv |-> inv.raised, A |-> A, B |-> B,
         A_inv |-> A_inv, V_robust |-> MatMul(MatMul(A_inv, B), A_inv)]

var_names == <<"Intercept", "Mode (Assisted vs Unaided)">>

\* gee_analysis.py 265-371.  Each coefficient is reported with its beta (as
\* exp(2 * beta)) and the diagonal entry of V_robust, of which se_robust is
\* the square root; the figures derived from beta and se_robust (gee_analysis.py
\* 299-328) are the Wald stage below.
fit(data) ==
    LET prep == prepare_data(data)
    IN  IF prep.raised
        THEN [raised |-> TRUE, results |-> NoResults, coefficients |-> <<>>,
              covariance_matrix |-> <<>>, used_pinv |-> FALSE,
              information |-> <<>>, model_variance |-> <<>>]
        ELSE LET beta == logistic_regression(prep.y, prep.X)
                 mu == expit_linear(prep.X, beta)
                 alpha == compute_working_correlation(prep.y, mu, prep.cluster_ids)
                 sv == sandwich_variance(prep.X, prep.y, mu, prep.cluster_ids, alpha)
             IN  IF sv.raised
                 THEN [raised |-> TRUE, results |-> NoResults, coefficients |-> <<>>,
                       covariance_matrix |-> <<>>, used_pinv |-> FALSE,
                       information |-> sv.A, model_variance |-> <<>>]
                 ELSE [raised |-> FALSE,
                       results |->
                          [made |-> TRUE,
                           coefficients |->
                              [name \in {var_names[1], var_names[2]} |->
                                  LET i == IF name = var_names[1] THEN 1 ELSE 2
                                  IN  [beta |-> beta[i],
                                       variance |-> sv.V_robust[i][i]]],
                           correlation |-> [structure |-> "exchangeable",
                                            alpha |-> alpha],
                           model_info |->
                              [n_obs |-> Len(prep.y),
                               n_clusters |->
                                  Cardinality({prep.cluster_ids[i] :
                                                  i \in 1..Len(prep.cluster_ids)}),
                               mean_cluster_size |->
                                  np_mean([i \in 1..Len(prep.cluster_sizes) |->
                                              <<prep.cluster_sizes[i], 1>>]),
                               n_covariates |-> Len(prep.X[1])]],
                       coefficients |-> beta,
                       covariance_matrix |-> sv.V_robust,
                       used_pinv |-> sv.used_pinv,
                       information |-> sv.A,
                       model_variance |-> sv.A_inv]

(***************************************************************************)
(* SpecGee: one GEEAnalyzer fitting one record list                        *)
(***************************************************************************)
\* (outcome, mode) of the records, in the order of the list
GeeRows == [outcome : {0, 1}, mode : {0, 1}]

GeeRowLists ==
    {rows \in SeqsUpTo(GeeRows, MaxGeeRecords) :
        ~Separated([i \in 1..Len(rows) |-> rows[i].outcome],
                   [i \in 1..Len(rows) |-> <<1, rows[i].mode>>])}

\* the ways to give n records to patients that are covered: to two
\* patients or fewer, or each record to its own patient.  Patient ids are
\* opaque, so the first record's patient is patient 1.
Clusterings(n) ==
    {c \in [1..n -> {1, 2}] : n > 0 => c[1] = 1} \cup {[i \in 1..n |-> i]}

WithPatients(rows, c) ==
    [i \in 1..Len(rows) |->
        [patient_id |-> c[i], outcome |-> rows[i].outcome, mode |-> rows[i].mode]]

GeeInit ==
    /\ \E rows \in GeeRowLists : \E c \in Clusterings(Len(rows)) :
          gee = [GeeFresh EXCEPT !.data = WithPatients(rows, c)]
    /\ rng = 0
    /\ bootIdle
    /\ fnIdle
    /\ pmIdle
    /\ dcaIdle
    /\ pipeIdle

\* analyzer.fit(data)
GeeFit ==
    /\ gee.state = "fresh"
    /\ \E r \in {fit(gee.data)} :
           gee' = [gee EXCEPT !.state = "done", !.raised = r.raised,
                              !.results = r.results,
                              !.coefficients = r.coefficients,
                              !.covariance_matrix = r.covariance_matrix,
                              !.used_pinv = r.used_pinv,
                              !.information = r.information,
                              !.model_variance = r.model_variance]
    /\ UNCHANGED <<fn, rng, analyzers, data_assisted, data_unaided, pm, dca, pipe>>

GeeNext == GeeFit

SpecGee == GeeInit /\ [][GeeNext]_vars

(***************************************************************************)
(* SpecCorr: compute_working_correlation called on an outcome vector, a    *)
(* vector of predicted probabilities and cluster ids.  expit gives a float *)
(* in [0, 1], the ends included.                                           *)
(***************************************************************************)
CorrMus == {Zero, <<1, 2>>, <<1, 1>>}

CorrRows == [y : {0, 1}, mu : CorrMus, cluster_id : {1, 2}]

\* cluster ids are opaque: the first row's cluster is cluster 1
CorrRowLists == {rows \in SeqsUpTo(CorrRows, MaxCorrRows) :
                    Len(rows) > 0 => rows[1].cluster_id = 1}

CorrInit ==
    /\ \E rows \in CorrRowLists :
          gee = [GeeFresh EXCEPT
                    !.state = "predicted",
                    !.y = np_array([i \in 1..Len(rows) |-> rows[i].y]),
                    !.mu = np_array([i \in 1..Len(rows) |-> rows[i].mu]),
                    !.cluster_ids = np_array([i \in 1..Len(rows) |-> rows[i].cluster_id])]
    /\ rng = 0
    /\ bootIdle
    /\ fnIdle
    /\ pmIdle
    /\ dcaIdle
    /\ pipeIdle

\* gee_analysis.py 292: alpha = self.compute_working_correlation(y, mu, cluster_ids)
GeeComputeWorkingCorrelation ==
    /\ gee.state = "predicted"
    /\ gee' = [gee EXCEPT !.state = "correlated",
                          !.alpha = compute_working_correlation(gee.y, gee.mu,
                                                                gee.cluster_ids)]
    /\ UNCHANGED <<fn, rng, analyzers, data_assisted, data_unaided, pm, dca, pipe>>

CorrNext == GeeComputeWorkingCorrelation

SpecCorr == CorrInit /\ [][CorrNext]_vars

(***************************************************************************)
(* The Wald stage of fit (gee_analysis.py 299-331): the figures derived    *)
(* from beta and robust_se.  Here beta and robust_se are numbers, taken    *)
(* from a grid.  numpy's float division gives inf, -inf or nan for a zero  *)
(* divisor: <<1, 0>>, <<-1, 0>> and <<0, 0>>.  np.exp and norm.cdf are     *)
(* transcendental; they are stood for by increasing rational functions     *)
(* with the same values at 0, the same limits and the same symmetry.       *)
(***************************************************************************)
RNeg(x) == <<-x[1], x[2]>>
RAbs(x) == <<Abs(x[1]), x[2]>>
Sign(n) == IF n > 0 THEN 1 ELSE IF n < 0 THEN -1 ELSE 0

\* numpy float division
NpDiv(x, y) == IF y[1] = 0 THEN <<Sign(x[1]), 0>> ELSE RDiv(x, y)

\* 1 + x + x^2 / 2, for x >= 0
ExpSeries(x) == RAdd(<<1, 1>>, RAdd(x, RMul(<<1, 2>>, RMul(x, x))))

\* np.exp: positive, increasing, exp(0) = 1, exp(-x) = 1 / exp(x)
np_exp(x) ==
    IF x[1] >= 0 THEN ExpSeries(x) ELSE RDiv(<<1, 1>>, ExpSeries(RNeg(x)))

\* scipy.stats.norm.cdf: increasing from 0 to 1, cdf(0) = 1/2,
\* cdf(-z) = 1 - cdf(z); between the knots 0, 1, 2, 3 it is interpolated
\* from 0.5, 0.84, 0.975 and 1
norm_cdf_upper(z) ==
    IF RLe(<<3, 1>>, z) THEN <<1, 1>>
    ELSE IF RLe(<<2, 1>>, z)
    THEN RAdd(<<39, 40>>, RMul(RSub(z, <<2, 1>>), <<1, 40>>))
    ELSE IF RLe(<<1, 1>>, z)
    THEN RAdd(<<21, 25>>, RMul(RSub(z, <<1, 1>>), <<27, 200>>))
    ELSE RAdd(<<1, 2>>, RMul(z, <<17, 50>>))

norm_cdf(z) ==
    IF z = NoValue THEN NoValue
    ELSE IF z[2] = 0 THEN (IF z[1] > 0 THEN <<1, 1>> ELSE Zero)
    ELSE IF z[1] >= 0 THEN norm_cdf_upper(z)
    ELSE RSub(<<1, 1>>, norm_cdf_upper(RNeg(z)))

\* gee_analysis.py 304: 2 * (1 - norm.cdf(|z|)); nan for a nan z
two_sided_p(z) ==
    IF z = NoValue THEN NoValue
    ELSE RMul(<<2, 1>>, RSub(<<1, 1>>, norm_cdf(RAbs(z))))

\* gee_analysis.py 324: the normal quantile 1.96
Z95 == <<49, 25>>

\* Faulty variant: the odds-ratio interval laid around OR on the OR scale
wald_OrScaleInterval(beta, robust_se) ==
    [i \in 1..Len(beta) |->
        LET z == NpDiv(beta[i], robust_se[i])
        IN  [beta |-> beta[i],
             se_robust |-> robust_se[i],
             z |-> z,
             p_value |-> two_sided_p(z),
             ci_lower |-> RSub(beta[i], RMul(Z95, robust_se[i])),
             ci_upper |-> RAdd(beta[i], RMul(Z95, robust_se[i])),
             OR |-> np_exp(beta[i]),
             OR_ci_lower |-> RSub(np_exp(beta[i]), RMul(Z95, robust_se[i])),
             OR_ci_upper |-> RAdd(np_exp(beta[i]), RMul(Z95, robust_se[i]))]]

\* gee_analysis.py 299-331: one row of figures per coefficient.  The value
\* that gee_analysis.py 301 gives p_values is overwritten at 304.
wald(beta, robust_se) ==
    [i \in 1..Len(beta) |->
        LET z == NpDiv(beta[i], robust_se[i])
        IN  [beta |-> beta[i],
             se_robust |-> robust_se[i],
             z |-> z,
             p_value |-> two_sided_p(z),
             ci_lower |-> RSub(beta[i], RMul(Z95, robust_se[i])),
             ci_upper |-> RAdd(beta[i], RMul(Z95, robust_se[i])),
             OR |-> np_exp(beta[i]),
             OR_ci_lower |-> np_exp(RSub(beta[i], RMul(Z95, robust_se[i]))),
             OR_ci_upper |-> np_exp(RAdd(beta[i], RMul(Z95, robust_se[i])))]]

(***************************************************************************)
(* SpecWald: fit from gee_analysis.py 299 on, beta and robust_se given     *)
(***************************************************************************)
WaldBetas == {Rat(i, 2) : i \in (-2 * MaxBeta)..(2 * MaxBeta)}
WaldSes == {Rat(i, 2) : i \in 0..(2 * MaxSe)}

WaldInit ==
    /\ \E b1 \in WaldBetas, b2 \in WaldBetas, s1 \in WaldSes, s2 \in WaldSes :
          gee = [GeeFresh EXCEPT !.state = "estimated", !.beta = <<b1, b2>>,
                                 !.robust_se = <<s1, s2>>]
    /\ rng = 0
    /\ bootIdle
    /\ fnIdle
    /\ pmIdle
    /\ dcaIdle
    /\ pipeIdle

GeeWald ==
    /\ gee.state = "estimated"
    /\ \E rows \in {wald(gee.beta, gee.robust_se)} :
          gee' = [gee EXCEPT !.state = "reported",
                             !.wald = [name \in {var_names[1], var_names[2]} |->
                                          rows[IF name = var_names[1] THEN 1 ELSE 2]]]
    /\ UNCHANGED <<fn, rng, analyzers, data_assisted, data_unaided, pm, dca, pipe>>

WaldNext == GeeWald

SpecWald == WaldInit /\ [][WaldNext]_vars

(***************************************************************************)
(* AnalysisPipeline (src/main.py): main() parses the options, constructs   *)
(* the pipeline and calls run(), which calls the eight steps in turn       *)
(* inside one try block.  What a step does with files, workbooks and the   *)
(* analysers is not followed here: that work returns or raises, and an     *)
(* exception of any step ends run() in its handler (main.py 413-417).      *)
(* PatientLevelAnalyzer and the analyze and save_results methods that the  *)
(* steps call are not among the source files.                              *)
(***************************************************************************)
Booleans == {TRUE, FALSE}

\* what the work of a step that is not skipped can do
StepOutcomes == {"returns", "raises"}

\* the record of one step call: what it did, and for the bootstrap step the
\* n_iterations it passed to BootstrapAnalyzer (0 when none was constructed)
StepRecord(name, did, n_iterations) ==
    [name |-> name, did |-> did, n_iterations |-> n_iterations]

\* a step call made by run(): it returned, or it raised and the handler of
\* main.py 413-417 made run() return False
AfterStep(name, did, n_iterations) ==
    IF did = "raised"
    THEN [pipe EXCEPT !.steps = Append(@, StepRecord(name, did, n_iterations)),
                      !.state = "returned", !.returned = "False"]
    ELSE [pipe EXCEPT !.steps = Append(@, StepRecord(name, did, n_iterations))]

AtStep(k) == pipe.state = "running" /\ Len(pipe.steps) = k - 1

DidOf(outcome) == IF outcome = "raises" THEN "raised" ELSE "run"

\* a step of the pipeline leaves the engines of the other parts as they are
PipeFrame == UNCHANGED <<fn, rng, analyzers, data_assisted, data_unaided,
                         pm, gee, dca>>

\* main.py 420-440: parser.parse_args()
main ==
    /\ pipe.state = "unborn"
    /\ \E sb \in Booleans, sv \in Booleans, q \in Booleans :
          pipe' = [pipe EXCEPT !.state = "parsed",
                               !.args = [skip_bootstrap |-> sb,
                                         skip_visualization |-> sv,
                                         quick |-> q]]
    /\ PipeFrame

\* main.py 44-58, called at main.py 443-447
AnalysisPipeline_init ==
    /\ pipe.state = "parsed"
    /\ pipe' = [pipe EXCEPT
          !.state = "constructed",
          !.skip_bootstrap = pipe.args.skip_bootstrap \/ pipe.args.quick,
          !.skip_visualization = pipe.args.skip_visualization \/ pipe.args.quick,
          !.quick_mode = pipe.args.quick]
    /\ PipeFrame

\* main.py 383-385, called at main.py 449
run ==
    /\ pipe.state = "constructed"
    /\ pipe' = [pipe EXCEPT !.state = "running"]
    /\ PipeFrame

\* main.py 75-111
step1_load_data ==
    /\ AtStep(1)
    /\ \E outcome \in StepOutcomes :
          pipe' = AfterStep("step1_load_data", DidOf(outcome), 0)
    /\ PipeFrame

\* main.py 113-139
step2_patient_metrics ==
    /\ AtStep(2)
    /\ \E outcome \in StepOutcomes :
          pipe' = AfterStep("step2_patient_metrics", DidOf(outcome), 0)
    /\ PipeFrame

\* main.py 141-170
step3_bootstrap ==
    /\ AtStep(3)
    /\ IF pipe.skip_bootstrap
       THEN pipe' = AfterStep("step3_bootstrap", "skipped", 0)
       ELSE LET n_iterations == IF pipe.quick_mode THEN 100 ELSE 1000
            IN  \E outcome \in StepOutcomes :
                   pipe' = AfterStep("step3_bootstrap", DidOf(outcome), n_iterations)
    /\ PipeFrame

\* main.py 172-200
step4_gee ==
    /\ AtStep(4)
    /\ \E outcome \in StepOutcomes :
          pipe' = AfterStep("step4_gee", DidOf(outcome), 0)
    /\ PipeFrame

\* main.py 202-229
step5_dca ==
    /\ AtStep(5)
    /\ \E outcome \in StepOutcomes :
          pipe' = AfterStep("step5_dca", DidOf(outcome), 0)
    /\ PipeFrame

\* main.py 231-279
step6_lesion_metrics ==
    /\ AtStep(6)
    /\ \E outcome \in StepOutcomes :
          pipe' = AfterStep("step6_lesion_metrics", DidOf(outcome), 0)
    /\ PipeFrame

\* main.py 281-370
step7_visualization ==
    /\ AtStep(7)
    /\ IF pipe.skip_visualization
       THEN pipe' = AfterStep("step7_visualization", "skipped", 0)
       ELSE \E outcome \in StepOutcomes :
               pipe' = AfterStep("step7_visualization", DidOf(outcome), 0)
    /\ PipeFrame

\* main.py 372-381
step8_reporting ==
    /\ AtStep(8)
    /\ \E outcome \in StepOutcomes :
          pipe' = AfterStep("step8_reporting", DidOf(outcome), 0)
    /\ PipeFrame

\* main.py 396-411: all eight steps returned
run_returns ==
    /\ AtStep(9)
    /\ pipe' = [pipe EXCEPT !.state = "returned", !.returned = "True"]
    /\ PipeFrame

\* main.py 449-450: sys.exit(0 if success else 1)
sys_exit ==
    /\ pipe.state = "returned"
    /\ pipe' = [pipe EXCEPT !.state = "exited",
                            !.exit_code = IF pipe.returned = "True" THEN 0 ELSE 1]
    /\ PipeFrame

PipeInit ==
    /\ pipe = NoProcess
    /\ rng = 0
    /\ bootIdle
    /\ fnIdle
    /\ pmIdle
    /\ geeIdle
    /\ dcaIdle

PipeNext ==
    \/ main
    \/ AnalysisPipeline_init
    \/ run
    \/ step1_load_data
    \/ step2_patient_metrics
    \/ step3_bootstrap
    \/ step4_gee
    \/ step5_dca
    \/ step6_lesion_metrics
    \/ step7_visualization
    \/ step8_reporting
    \/ run_returns
    \/ sys_exit

SpecPipe == PipeInit /\ [][PipeNext]_vars

(***************************************************************************)
(* SpecRange: the three places where rates and their differences are made, *)
(* side by side: the pure functions, one run_comparison, and one           *)
(* PatientMetricsCalculator.  Each behaviour stays in the part it began in:*)
(* the calculator's begin in PmInit, where the generator is untouched.     *)
(***************************************************************************)
RangeInit == FnInit \/ CmpInit \/ PmInit

RangeNext ==
    \/ FnNext
    \/ (fnIdle /\ pmIdle /\ CmpNext)
    \/ (fnIdle /\ bootIdle /\ rng = 0 /\ PmNext)

SpecRange == RangeInit /\ [][RangeNext]_vars

InUnitInterval(x) == IsValue(x) /\ RLe(Zero, x) /\ RLe(x, <<1, 1>>)
InSignedUnitInterval(x) == IsValue(x) /\ RLe(<<-1, 1>>, x) /\ RLe(x, <<1, 1>>)

\* every sample, the mean and both CI bounds of every metric of a block
BlockWithin(metrics, Within(_)) ==
    \A k \in MetricNames :
        /\ \A i \in 1..Len(metrics[k].samples) : Within(metrics[k].samples[i])
        /\ Within(metrics[k].mean)
        /\ Within(metrics[k].ci_lower)
        /\ Within(metrics[k].ci_upper)

\* C19: every rate computed from a confusion matrix of non-negative counts
\* lies in [0, 1] and every assisted-minus-unaided difference of rates lies
\* in [-1, 1]: the rates of both calculate_metrics, the deltas of
\* PatientMetricsCalculator.calculate_delta, and every bootstrap sample, mean
\* and CI bound (in [0, 1]) with their delta counterparts (in [-1, 1]).
C19_RatesAndDeltasInRange ==
    /\ fn.op \in {"calculate_metrics", "pm_calculate_metrics"} =>
          \A k \in MetricNames : InUnitInterval(fn.out_metrics[k])
    /\ \A mode \in DOMAIN pm.metrics : \A k \in MetricNames :
          InUnitInterval(pm.metrics[mode][k])
    /\ (pm.last = "calculate_delta" /\ ~pm.raised) =>
          \A k \in MetricNames : InSignedUnitInterval(pm.delta[k])
    /\ \A a \in Analyzers :
          LET self == analyzers[a]
          IN  /\ \A k \in MetricNames :
                    \A i \in 1..Len(self.bootstrap_samples[k]) :
                        InUnitInterval(self.bootstrap_samples[k][i])
              /\ self.results_assisted.made =>
                    BlockWithin(self.results_assisted.metrics, InUnitInterval)
              /\ self.results_unaided.made =>
                    BlockWithin(self.results_unaided.metrics, InUnitInterval)
              /\ (self.returned.made /\ self.call = "run_comparison") =>
                    /\ BlockWithin(self.returned.assisted.metrics, InUnitInterval)
                    /\ BlockWithin(self.returned.unaided.metrics, InUnitInterval)
                    /\ BlockWithin(self.returned.delta.metrics, InSignedUnitInterval)

\* a run_comparison whose deltas touch both ends: one metric's interval
\* begins at -1 and another's ends at 1
C19_Witness ==
    /\ analyzers[1].returned.made
    /\ analyzers[1].call = "run_comparison"
    /\ \E k \in MetricNames :
          analyzers[1].returned.delta.metrics[k].ci_lower = <<-1, 1>>
    /\ \E k \in MetricNames :
          analyzers[1].returned.delta.metrics[k].ci_upper = <<1, 1>>

(***************************************************************************)
(* Properties of the decision curves (SpecDca)                             *)
(***************************************************************************)
CountsOf(cm) == <<cm.TP, cm.FP, cm.FN, cm.TN>>

\* x = num / den for a rational x and integers num, den with den > 0
EqualsQuotient(x, num, den) == IsValue(x) /\ x[1] * den = num * x[2]

\* TP/N - (FP/N) * (t/(1-t)) over the common denominator N * (tden - tnum),
\* for t = tnum / tden in (0, 1)
NetBenefitFormula(x, cm, t) ==
    LET N == cm.TP + cm.FP + cm.FN + cm.TN
    IN  EqualsQuotient(x, cm.TP * (t[2] - t[1]) - cm.FP * t[1], N * (t[2] - t[1]))

\* C16: calculate_net_benefit(TP, FP, FN, TN, t) is TP/N - (FP/N)*(t/(1-t))
\* with N = TP+FP+FN+TN for every matrix with N > 0 and every t in (0, 1),
\* and 0.0 when N = 0; for TP=90, FP=10, FN=10, TN=90 at t = 0.10 it is 4/9.
C16_NetBenefitFormula ==
    dca.last = "calculate_net_benefit" =>
        LET cm == dca.cm_assisted
            t == dca.threshold
            N == cm.TP + cm.FP + cm.FN + cm.TN
            nb == dca.returned.value
        IN  /\ N = 0 => nb = Zero
            /\ (N > 0 /\ RLt(Zero, t) /\ RLt(t, <<1, 1>>)) => NetBenefitFormula(nb, cm, t)
            /\ (cm = ExampleMatrix /\ t = <<1, 10>>) => nb = <<4, 9>>

\* the worked example has been computed
C16_Witness ==
    /\ dca.last = "calculate_net_benefit"
    /\ dca.cm_assisted = ExampleMatrix
    /\ dca.threshold = <<1, 10>>
    /\ dca.returned.value = <<4, 9>>

\* C17: delta_net_benefit has one entry per threshold of the grid, entry i
\* being the assisted model net benefit at threshold i minus the unaided
\* one; with identical counts in both matrices every entry is zero.
C17_DeltaNetBenefit ==
    (dca.last = "compare_strategies" /\ ~dca.raised) =>
        LET r == dca.returned
            a == dca.cm_assisted
            u == dca.cm_unaided
        IN  /\ Len(r.delta_net_benefit) = dca.n_thresholds
            /\ Len(r.thresholds) = dca.n_thresholds
            /\ \A i \in 1..dca.n_thresholds :
                  LET x == calculate_net_benefit(a.TP, a.FP, a.FN, a.TN, r.thresholds[i])
                      y == calculate_net_benefit(u.TP, u.FP, u.FN, u.TN, r.thresholds[i])
                      d == r.delta_net_benefit[i]
                  IN  /\ r.assisted.net_benefit_model[i] = x
                      /\ r.unaided.net_benefit_model[i] = y
                      /\ EqualsQuotient(d, x[1] * y[2] - y[1] * x[2], x[2] * y[2])
            /\ CountsOf(a) = CountsOf(u) =>
                  \A i \in 1..dca.n_thresholds : r.delta_net_benefit[i] = Zero

\* two identical matrices with true and false positives compared on a grid
\* of the largest size
C17_Witness ==
    /\ dca.last = "compare_strategies"
    /\ ~dca.raised
    /\ dca.n_thresholds = MaxThresholds
    /\ CountsOf(dca.cm_assisted) = CountsOf(dca.cm_unaided)
    /\ dca.cm_assisted.TP > 0 /\ dca.cm_assisted.FP > 0
    /\ \A i \in 1..MaxThresholds : dca.returned.delta_net_benefit[i] = Zero

\* C18: every entry of net_benefit_treat_none that analyze_strategy returns
\* is exactly 0.0, whatever the matrix and the analyzer's grid (in
\* compare_strategies too, which returns two analyze_strategy results).
C18_TreatNoneIsZero ==
    /\ (dca.last = "analyze_strategy" /\ ~dca.raised) =>
          /\ Len(dca.returned.net_benefit_treat_none) = dca.n_thresholds
          /\ \A i \in 1..dca.n_thresholds :
                dca.returned.net_benefit_treat_none[i] = Zero
    /\ (dca.last = "compare_strategies" /\ ~dca.raised) =>
          \A i \in 1..dca.n_thresholds :
              /\ dca.returned.assisted.net_benefit_treat_none[i] = Zero
              /\ dca.returned.unaided.net_benefit_treat_none[i] = Zero

\* analyze_strategy returned curves on a grid of the largest size, the model
\* and the treat-all curves being nowhere zero
C18_Witness ==
    /\ dca.last = "analyze_strategy"
    /\ ~dca.raised
    /\ dca.n_thresholds = MaxThresholds
    /\ \A i \in 1..MaxThresholds :
          /\ dca.returned.net_benefit_model[i] # Zero
          /\ dca.returned.net_benefit_treat_all[i] # Zero
          /\ dca.returned.net_benefit_treat_none[i] = Zero

(***************************************************************************)
(* Properties of GEEAnalyzer.fit (SpecGee)                                 *)
(***************************************************************************)
\* outcome vector and design matrix of the records in the order of the list
OutcomesOf(data) == np_array([i \in 1..Len(data) |-> data[i].outcome])
DesignOf(data) == np_array([i \in 1..Len(data) |-> <<1, data[i].mode>>])

\* the same records given to other patients
Reassigned(data, c) ==
    [i \in 1..Len(data) |-> [data[i] EXCEPT !.patient_id = c[i]]]

\* C11: the beta that fit reports is the output of logistic_regression and a
\* function of the outcomes and the design rows alone: it is the estimate
\* made from the records taken in the order of the list, and it stays the
\* same when each record is given to a patient of its own.
C11_BetaIgnoresClustering ==
    (gee.state = "done" /\ ~gee.raised) =>
        /\ gee.coefficients
              = logistic_regression(OutcomesOf(gee.data), DesignOf(gee.data))
        /\ \A i \in 1..2 :
              gee.results.coefficients[var_names[i]].beta = gee.coefficients[i]
        /\ \A other \in {fit(Reassigned(gee.data, [i \in 1..Len(gee.data) |-> i]))} :
              other.coefficients = gee.coefficients

\* a fit whose rows were reordered by prepare_data (a patient's records are
\* apart in the list, and the last record is not the last row), with both
\* modes present and a non-zero mode coefficient
C11_Witness ==
    /\ gee.state = "done"
    /\ ~gee.raised
    /\ \E i, j, k \in 1..Len(gee.data) :
          /\ i < j /\ j < k
          /\ gee.data[i].patient_id = gee.data[k].patient_id
          /\ gee.data[i].patient_id # gee.data[j].patient_id
    /\ prepare_data(gee.data).X[Len(gee.data)][2] # gee.data[Len(gee.data)].mode
    /\ ~gee.used_pinv
    /\ gee.coefficients[2] # <<1, 1>>

AllSameMode(data) == \A i, j \in 1..Len(data) : data[i].mode = data[j].mode

CompleteResults(results) ==
    /\ results.made
    /\ DOMAIN results.coefficients = {var_names[1], var_names[2]}
    /\ \A name \in DOMAIN results.coefficients :
          /\ IsValue(results.coefficients[name].beta)
          /\ IsValue(results.coefficients[name].variance)
    /\ IsValue(results.correlation.alpha)
    /\ results.model_info.n_obs > 0

\* C13: when A = X'WX is singular, as it is whenever all records have the
\* same mode, sandwich_variance takes the pseudo-inverse of A and fit returns
\* a complete result without raising.
C13_SingularFallsBackToPinv ==
    (gee.state = "done" /\ gee.data # <<>>) =>
        /\ AllSameMode(gee.data) => Det(gee.information) = Zero
        /\ Det(gee.information) = Zero =>
              /\ ~gee.raised
              /\ gee.used_pinv
              /\ gee.model_variance = np_linalg_pinv(gee.information)
              /\ CompleteResults(gee.results)

\* a fit of three or more records of one mode that went through the
\* pseudo-inverse and reports a positive intercept variance
C13_Witness ==
    /\ gee.state = "done"
    /\ Len(gee.data) >= 3
    /\ AllSameMode(gee.data)
    /\ gee.used_pinv
    /\ ~gee.raised
    /\ RLt(Zero, gee.covariance_matrix[1][1])

\* C14: fit on an empty record list raises nothing and returns a result
\* structure.
C14_EmptyFitReturns ==
    (gee.state = "done" /\ gee.data = <<>>) =>
        /\ ~gee.raised
        /\ gee.results.made

C12_WaldFigures ==
    gee.state = "reported" =>
        \A i \in 1..2 :
            LET r == gee.wald[var_names[i]]
                b == gee.beta[i]
                se == gee.robust_se[i]
            IN  /\ r.beta = b /\ r.se_robust = se
                /\ se[1] > 0 =>
                      /\ EqualsQuotient(r.z, b[1] * se[2], b[2] * se[1])
                      /\ r.p_value = RAdd(norm_cdf(RNeg(RAbs(r.z))),
                                          RSub(<<1, 1>>, norm_cdf(RAbs(r.z))))
                      /\ RLe(Zero, r.p_value) /\ RLe(r.p_value, <<1, 1>>)
                /\ EqualsQuotient(r.ci_lower, 100 * b[1] * se[2] - 196 * se[1] * b[2],
                                  100 * b[2] * se[2])
                /\ EqualsQuotient(r.ci_upper, 100 * b[1] * se[2] + 196 * se[1] * b[2],
                                  100 * b[2] * se[2])
                /\ r.OR = np_exp(r.beta)
                /\ r.OR_ci_lower = np_exp(r.ci_lower)
                /\ r.OR_ci_upper = np_exp(r.ci_upper)
                /\ RLe(r.ci_lower, r.beta) /\ RLe(r.beta, r.ci_upper)
                /\ RLe(r.OR_ci_lower, r.OR) /\ RLe(r.OR, r.OR_ci_upper)

\* a negative coefficient with a positive standard error whose interval
\* holds 0, beside a positive one whose interval does not
C12_Witness ==
    /\ gee.state = "reported"
    /\ LET r == gee.wald[var_names[1]]
           q == gee.wald[var_names[2]]
       IN  /\ RLt(r.beta, Zero) /\ RLt(Zero, r.se_robust)
           /\ RLt(r.ci_lower, Zero) /\ RLt(Zero, r.ci_upper)
           /\ RLt(r.OR_ci_lower, r.OR) /\ RLt(r.OR, <<1, 1>>)
           /\ RLt(<<1, 1>>, r.OR_ci_upper)
           /\ RLt(Zero, q.ci_lower) /\ RLt(<<1, 1>>, q.OR_ci_lower)
           /\ RLt(q.p_value, <<1, 20>>) /\ RLt(<<1, 20>>, r.p_value)

(***************************************************************************)
(* Properties of the pipeline (SpecPipe)                                   *)
(***************************************************************************)
StepNames ==
    <<"step1_load_data", "step2_patient_metrics", "step3_bootstrap", "step4_gee",
      "step5_dca", "step6_lesion_metrics", "step7_visualization", "step8_reporting">>

\* C21: a run that completes calls step1 .. step8 in that order; with --quick
\* the bootstrap step runs with B = 100, the visualization and report steps
\* are skipped and every other step runs; without --quick and without skip
\* flags every step runs, the bootstrap with B = 1000.
C21_QuickModeSteps ==
    (pipe.state = "exited" /\ pipe.exit_code = 0) =>
        /\ [i \in 1..Len(pipe.steps) |-> pipe.steps[i].name] = StepNames
        /\ \A i \in {1, 2, 4, 5, 6} : pipe.steps[i].did = "run"
        /\ pipe.args.quick =>
              /\ pipe.steps[3].did = "run"
              /\ pipe.steps[3].n_iterations = 100
              /\ pipe.steps[7].did = "skipped"
              /\ pipe.steps[8].did = "skipped"
        /\ (/\ ~pipe.args.quick
            /\ ~pipe.args.skip_bootstrap
            /\ ~pipe.args.skip_visualization) =>
              /\ \A i \in 1..8 : pipe.steps[i].did = "run"
              /\ pipe.steps[3].n_iterations = 1000

(***************************************************************************)
(* Properties of run_bootstrap within run_comparison (SpecCmp)             *)
(***************************************************************************)
\* the metric values of iteration i of a run on data that starts from stream
\* state g: the metrics of the i-th resample
RECURSIVE IterationMetrics(_, _, _)
IterationMetrics(data, g, i) ==
    LET resampled == resample_patients(data, g)
    IN  IF i = 1
        THEN calculate_metrics(aggregate_to_patient_level(resampled.data))
        ELSE IterationMetrics(data, resampled.rng, i - 1)

\* the stream state after n resamples of data from stream state g
RECURSIVE StreamAfter(_, _, _)
StreamAfter(data, g, n) ==
    IF n = 0 THEN g ELSE StreamAfter(data, resample_patients(data, g).rng, n - 1)

\* C22: run_bootstrap makes exactly n_iterations iterations and returns, for
\* each of the four metrics, a sample sequence of length n_iterations whose
\* i-th sample is the metric value of the i-th iteration; the four sequences
\* come from the same n_iterations resamples.
C22_OneSamplePerIteration ==
    LET self == analyzers[1]
        start == RngSeed(self.random_seed)
        between == StreamAfter(data_assisted, start, self.n_iterations)
    IN  /\ self.state = "running" =>
              /\ self.i <= self.n_iterations
              /\ \A k \in MetricNames : Len(self.bootstrap_samples[k]) = self.i
        /\ self.returned.made =>
              /\ \A k \in MetricNames :
                    /\ Len(self.returned.assisted.metrics[k].samples) = self.n_iterations
                    /\ Len(self.returned.unaided.metrics[k].samples) = self.n_iterations
                    /\ \A i \in 1..self.n_iterations :
                          /\ self.returned.assisted.metrics[k].samples[i]
                                = IterationMetrics(data_assisted, start, i)[k]
                          /\ self.returned.unaided.metrics[k].samples[i]
                                = IterationMetrics(data_unaided, between, i)[k]
              /\ self.returned.assisted.n_iterations = self.n_iterations
              /\ rng = StreamAfter(data_unaided, between, self.n_iterations)

\* a returned comparison of MaxIter iterations on two patients whose
\* assisted sensitivity samples are not all the same
C22_Witness ==
    LET self == analyzers[1]
    IN  /\ self.returned.made
        /\ self.n_iterations = MaxIter
        /\ \E i, j \in 1..self.n_iterations :
              self.returned.assisted.metrics["sensitivity"].samples[i]
                 # self.returned.assisted.metrics["sensitivity"].samples[j]
        /\ \E i \in 1..self.n_iterations :
              self.returned.assisted.metrics["sensitivity"].samples[i]
                 # self.returned.assisted.metrics["specificity"].samples[i]

\* C23: for each metric of the delta block, p_value_approx is the share of
\* delta samples that are <= 0 when the mean delta is > 0, and the share
\* that are >= 0 otherwise (a mean delta of 0 included); it lies in [0, 1].
C23_PValueIsCrossingShare ==
    LET self == analyzers[1]
    IN  self.returned.made =>
            \A k \in MetricNames :
                LET d == self.returned.delta.metrics[k]
                    n == Len(d.samples)
                    at_most_zero == Cardinality({i \in 1..n : d.samples[i][1] <= 0})
                    at_least_zero == Cardinality({i \in 1..n : d.samples[i][1] >= 0})
                IN  /\ d.mean[1] > 0 => EqualsQuotient(d.p_value_approx, at_most_zero, n)
                    /\ d.mean[1] <= 0 => EqualsQuotient(d.p_value_approx, at_least_zero, n)
                    /\ RLe(Zero, d.p_value_approx)
                    /\ RLe(d.p_value_approx, <<1, 1>>)

\* a delta block with a positive mean whose p-value is strictly between 0
\* and 1 because of a zero sample, one with a negative mean, and one whose
\* mean is 0 with samples on both sides
C23_Witness ==
    LET self == analyzers[1]
        delta == self.returned.delta
    IN  /\ self.returned.made
        /\ \E k \in MetricNames :
              /\ delta.metrics[k].mean[1] > 0
              /\ RLt(Zero, delta.metrics[k].p_value_approx)
              /\ RLt(delta.metrics[k].p_value_approx, <<1, 1>>)
              /\ \E i \in 1..Len(delta.metrics[k].samples) :
                    delta.metrics[k].samples[i] = Zero
        /\ \E k \in MetricNames :
              /\ delta.metrics[k].mean[1] < 0
              /\ RLt(delta.metrics[k].p_value_approx, <<1, 1>>)

\* the same for a mean delta of exactly 0 with samples on both sides of 0
C23_WitnessZeroMean ==
    LET self == analyzers[1]
        delta == self.returned.delta
    IN  /\ self.returned.made
        /\ \E k \in MetricNames :
              /\ delta.metrics[k].mean = Zero
              /\ RLt(delta.metrics[k].p_value_approx, <<1, 1>>)

(***************************************************************************)
(* Properties of compute_working_correlation (SpecCorr)                    *)
(***************************************************************************)
\* the rows of cluster c
MembersOf(c) == {i \in 1..Len(gee.cluster_ids) : gee.cluster_ids[i] = c}

ResidualOf(i) == RSub(<<gee.y[i], 1>>, gee.mu[i])

\* the sum of r_i * r_j over the unordered pairs of distinct rows of cluster
\* c: half of (sum of r)^2 - sum of r^2
PairProductSum(c) ==
    LET r == [i \in MembersOf(c) |-> ResidualOf(i)]
        sq == [i \in MembersOf(c) |-> RMul(ResidualOf(i), ResidualOf(i))]
        total == RSumSet(r, MembersOf(c))
    IN  RMul(<<1, 2>>, RSub(RMul(total, total), RSumSet(sq, MembersOf(c))))

PairCount(c) == (Cardinality(MembersOf(c)) * (Cardinality(MembersOf(c)) - 1)) \div 2

ClusterIdsUsed == {gee.cluster_ids[i] : i \in 1..Len(gee.cluster_ids)}

\* C24: alpha is the mean of r_i * r_j over all unordered within-cluster
\* pairs of distinct rows, clamped to [-0.99, 0.99]; clusters of one row add
\* no pair; alpha is exactly 0 when there is no pair; alpha is always within
\* [-0.99, 0.99].
C24_AlphaIsClampedPairMean ==
    gee.state = "correlated" =>
        LET big == {c \in ClusterIdsUsed : Cardinality(MembersOf(c)) >= 2}
            n_pairs == SumOver([c \in big |-> PairCount(c)], big)
            sum == RSumSet([c \in big |-> PairProductSum(c)], big)
            mean == RDiv(sum, <<n_pairs, 1>>)
        IN  /\ n_pairs = 0 => gee.alpha = Zero
            /\ n_pairs > 0 =>
                  /\ RLt(<<99, 100>>, mean) => gee.alpha = <<99, 100>>
                  /\ RLt(mean, <<-99, 100>>) => gee.alpha = <<-99, 100>>
                  /\ (RLe(<<-99, 100>>, mean) /\ RLe(mean, <<99, 100>>)) => gee.alpha = mean
            /\ RLe(<<-99, 100>>, gee.alpha)
            /\ RLe(gee.alpha, <<99, 100>>)

\* a clamped alpha from a cluster of two rows beside a cluster of one row
\* whose residual is not 0
C24_Witness ==
    /\ gee.state = "correlated"
    /\ gee.alpha = <<99, 100>>
    /\ \E c \in ClusterIdsUsed :
          /\ Cardinality(MembersOf(c)) = 1
          /\ \A i \in MembersOf(c) : ResidualOf(i) # Zero
    /\ \E c \in ClusterIdsUsed : Cardinality(MembersOf(c)) >= 2

\* an alpha strictly inside the interval, from two clusters of two rows
C24_WitnessInside ==
    /\ gee.state = "correlated"
    /\ RLt(<<-99, 100>>, gee.alpha) /\ RLt(gee.alpha, Zero)
    /\ \A c \in ClusterIdsUsed : Cardinality(MembersOf(c)) = 2
    /\ Cardinality(ClusterIdsUsed) = 2

(***************************************************************************)
(* Properties of the threshold grid (SpecDca)                              *)
(***************************************************************************)
\* the grid has n values at equal steps, none going down
EvenlySpaced(grid, n) ==
    /\ Len(grid) = n
    /\ \A i \in 1..(n - 1) : RLe(grid[i], grid[i + 1])
    /\ \A i \in 1..(n - 2) :
          RSub(grid[i + 1], grid[i]) = RSub(grid[i + 2], grid[i + 1])

\* what an analyze_strategy call returned keeps to one length
SameLengths(r, n) ==
    /\ Len(r.thresholds) = n
    /\ Len(r.net_benefit_model) = n
    /\ Len(r.net_benefit_treat_all) = n
    /\ Len(r.net_benefit_treat_none) = n

CurvesOnTheGrid ==
    /\ (dca.last = "analyze_strategy" /\ ~dca.raised) =>
          /\ SameLengths(dca.returned, dca.n_thresholds)
          /\ dca.returned.thresholds = dca.thresholds
    /\ (dca.last = "compare_strategies" /\ ~dca.raised) =>
          /\ SameLengths(dca.returned.assisted, dca.n_thresholds)
          /\ SameLengths(dca.returned.unaided, dca.n_thresholds)
          /\ dca.returned.assisted.thresholds = dca.thresholds
          /\ dca.returned.unaided.thresholds = dca.thresholds
          /\ dca.returned.thresholds = dca.thresholds

C26_NoDivisionByZero ==
    /\ dca.last = "calculate_net_benefit" =>
          LET cm == dca.cm_assisted
              N == cm.TP + cm.FP + cm.FN + cm.TN
          IN  /\ IsValue(dca.returned.value)
              /\ (N > 0 /\ RLe(<<1, 1>>, dca.threshold)) =>
                    EqualsQuotient(dca.returned.value, cm.TP, N)
    /\ (dca.last = "analyze_strategy" /\ ~dca.raised) =>
          LET cm == dca.cm_assisted
              N == cm.TP + cm.FP + cm.FN + cm.TN
              r == dca.returned
          IN  \A i \in 1..Len(r.thresholds) :
                  /\ IsValue(r.net_benefit_model[i])
                  /\ IsValue(r.net_benefit_treat_all[i])
                  /\ (N > 0 /\ RLe(<<1, 1>>, r.thresholds[i])) =>
                        /\ EqualsQuotient(r.net_benefit_model[i], cm.TP, N)
                        /\ EqualsQuotient(r.net_benefit_treat_all[i], cm.TP + cm.FN, N)

\* calculate_net_benefit called at threshold 1.0 on a matrix with false
\* positives
C26_Witness ==
    /\ dca.last = "calculate_net_benefit"
    /\ dca.threshold = <<1, 1>>
    /\ dca.cm_assisted.FP > 0
    /\ dca.cm_assisted.TP > 0
    /\ IsValue(dca.returned.value)

\* a treat-all curve whose grid ends at 1.0, for a prevalence below 1
C26_WitnessTreatAll ==
    /\ dca.last = "analyze_strategy"
    /\ ~dca.raised
    /\ dca.thresholds[dca.n_thresholds] = <<1, 1>>
    /\ dca.cm_assisted.FP > 0
    /\ dca.cm_assisted.TP > 0
    /\ dca.returned.net_benefit_treat_all[dca.n_thresholds] = dca.returned.prevalence

(***************************************************************************)
(* Properties of one bootstrap iteration (SpecFn)                          *)
(***************************************************************************)
\* C27: the confusion matrix of one iteration counts every distinct drawn
\* patient once: TP+FP+FN+TN is the number of distinct patient ids drawn,
\* which is at most the number P of patients (and of draws) and is less
\* than P exactly when some patient was drawn more than once.
C27_DistinctPatientsCounted ==
    fn.op = "bootstrap_single_iteration" =>
        LET P == Cardinality(PatientSet(fn.data))
            drawn == {fn.out_ids[i] : i \in 1..Len(fn.out_ids)}
            total == fn.cm.TP + fn.cm.FP + fn.cm.FN + fn.cm.TN
            repeated == \E i, j \in 1..Len(fn.out_ids) :
                           i < j /\ fn.out_ids[i] = fn.out_ids[j]
        IN  /\ Len(fn.out_ids) = P
            /\ total = Cardinality(drawn)
            /\ total <= P
            /\ total < P <=> repeated
            /\ fn.out_metrics = pm_calculate_metrics(fn.cm)

\* an iteration on three records of two patients that drew one patient
\* twice: one unit in the matrix, two draws
C27_Witness ==
    /\ fn.op = "bootstrap_single_iteration"
    /\ Len(fn.data) = 3
    /\ Cardinality(PatientSet(fn.data)) = 2
    /\ fn.out_ids[1] = fn.out_ids[2]
    /\ fn.cm.TP + fn.cm.FP + fn.cm.FN + fn.cm.TN = 1

(***************************************************************************)
(* Properties of repeated calls on one analyzer (SpecTwice)                *)
(***************************************************************************)
\* the sample blocks and the final stream state of a call of the kind of
\* entry that starts from stream state g and runs undisturbed
ReplayFrom(self, entry, g) ==
    IF entry.call = "run_bootstrap"
    THEN LET only == IterateAlone(DataOf(entry.mode), self.n_iterations, g, NoSamples)
         IN  [blocks |-> <<only.samples>>, rng |-> only.rng]
    ELSE LET first == IterateAlone(data_assisted, self.n_iterations, g, NoSamples)
             second == IterateAlone(data_unaided, self.n_iterations, first.rng, NoSamples)
         IN  [blocks |-> <<first.samples, second.samples>>, rng |-> second.rng]

\* C28: the seed is applied by the constructor alone and every resample takes
\* the next draws of the one stream: the first call starts from the seeded
\* state, each later call starts where the call before it left the stream,
\* and within run_comparison the unaided bootstrap starts where the assisted
\* one ended.
C28_StreamContinues ==
    LET self == analyzers[1]
        log == self.log
    IN  /\ Len(log) >= 1 => log[1].stream_at_start = RngSeed(self.random_seed)
        /\ \A k \in 1..Len(log) :
              LET replay == ReplayFrom(self, log[k], log[k].stream_at_start)
              IN  /\ SamplesOf(log[k]) = replay.blocks
                  /\ k < Len(log) => log[k + 1].stream_at_start = replay.rng
                  /\ (k = Len(log) /\ self.state = "idle") => rng = replay.rng
        /\ self.state = "running" =>
              self.stream_at_start =
                 IF Len(log) = 0 THEN RngSeed(self.random_seed)
                 ELSE ReplayFrom(self, log[Len(log)], log[Len(log)].stream_at_start).rng

\* run_bootstrap called twice on one analyzer with the same data returned
\* different samples, the second call having started from another stream
\* state than the seeded one
C28_Witness ==
    LET log == analyzers[1].log
    IN  /\ Len(log) = 2
        /\ log[1].call = "run_bootstrap"
        /\ log[2].call = "run_bootstrap"
        /\ log[1].mode = log[2].mode
        /\ log[2].stream_at_start # log[1].stream_at_start
        /\ SamplesOf(log[1]) # SamplesOf(log[2])

\* a run_comparison whose unaided samples differ from those the unaided data
\* give on the draws of the assisted bootstrap
C28_WitnessComparison ==
    LET self == analyzers[1]
        log == self.log
    IN  /\ Len(log) >= 1
        /\ log[1].call = "run_comparison"
        /\ SamplesOf(log[1])[2]
              # IterateAlone(data_unaided, self.n_iterations,
                             log[1].stream_at_start, NoSamples).samples

\* C29: after any calls of calculate_by_mode the stored metrics and the
\* stored confusion matrices hold exactly the modes that had a row in the
\* frame of the latest call (nothing before any call), both under the same
\* keys, whatever earlier calls stored; so calculate_delta returns exactly
\* when the latest calculate_by_mode saw both the assisted and the unaided
\* rows, and raises otherwise.
C29_StoresHoldLatestCallOnly ==
    /\ DOMAIN pm.metrics = ModesSeen
    /\ DOMAIN pm.confusion_matrices = DOMAIN pm.metrics
    /\ pm.last = "calculate_delta" =>
          (~pm.raised <=> ModesSeen = {MODE_ASSISTED, MODE_UNAIDED})

\* the unaided table was once built from the stores, and a later
\* calculate_by_mode on assisted rows alone has left only the assisted mode
C29_Witness ==
    /\ pm.table_mode = MODE_UNAIDED
    /\ pm.table # <<>>
    /\ pm.last = "calculate_by_mode"
    /\ ModesSeen = {MODE_ASSISTED}
    /\ DOMAIN pm.metrics = {MODE_ASSISTED}

\* calculate_delta has raised after two calls of calculate_by_mode, the
\* latest on a frame without unaided rows
C29_WitnessDelta ==
    /\ pm.last = "calculate_delta"
    /\ pm.raised
    /\ pm.calls = 3
    /\ pm.n_rows = 1
    /\ ModesSeen = {MODE_ASSISTED}
    /\ pm.table_mode = "none"

\* values of the alpha argument that sandwich_variance is tried with: the two
\* ends of the clamp of compute_working_correlation and the value for no pair
AlphaProbes == {<<-99, 100>>, Zero, <<99, 100>>}

\* C30: the working correlation alpha does not reach the inference of fit:
\* sandwich_variance gives the covariance that fit stored for every value of
\* its alpha argument, the variance reported beside each coefficient (of
\* which se_robust, z, p_value and the interval bounds are computed with
\* beta) is the diagonal entry of that covariance, and the alpha that
\* compute_working_correlation returned stands in the correlation block of
\* the result.
C30_AlphaLeavesInferenceAlone ==
    (gee.state = "done" /\ ~gee.raised) =>
        \E prep \in {prepare_data(gee.data)} :
        \E mu \in {expit_linear(prep.X, gee.coefficients)} :
           /\ \A alpha \in AlphaProbes :
                 sandwich_variance(prep.X, prep.y, mu, prep.cluster_ids, alpha).V_robust
                    = gee.covariance_matrix
           /\ \A i \in 1..2 :
                 gee.results.coefficients[var_names[i]].variance
                    = gee.covariance_matrix[i][i]
           /\ gee.results.correlation.alpha
                 = compute_working_correlation(prep.y, mu, prep.cluster_ids)

\* a fit on records that share patients, with a working correlation other
\* than zero and a robust covariance other than the zero matrix
C30_Witness ==
    /\ gee.state = "done"
    /\ ~gee.raised
    /\ ~gee.used_pinv
    /\ gee.results.model_info.n_clusters < gee.results.model_info.n_obs
    /\ gee.results.correlation.alpha # Zero
    /\ gee.covariance_matrix # ZeroMatrix

====
